---- MODULE Spec2Model ----
(***************************************************************************)
(* PowerToFly jobs scraper.                                                *)
(*                                                                         *)
(* The repository holds three programs that share the field normalizers    *)
(* and the detail-page handler:                                            *)
(*   "search"  - src/src/main.js:740-1123: search-API discovery, then a    *)
(*               CheerioCrawler over the candidate detail URLs;            *)
(*   "listing" - src/unnamed/part_001: listing-page discovery, then the    *)
(*               same kind of detail crawler;                              *)
(*   "crawl"   - src/unnamed/part_002: one CheerioCrawler whose handler    *)
(*               serves LIST and DETAIL requests.                          *)
(* The variable rev says which of them runs.                               *)
(*                                                                         *)
(* Strings are sequences of tokens (a token is a character or a word),     *)
(* JavaScript values are records tagged by their type.                     *)
(***************************************************************************)
EXTENDS Integers, Sequences, FiniteSets, TLC

VARIABLES
    rev,            \* the program that runs: "search", "listing" or "crawl"
    cfg,            \* the actor input after defaults and clamping
    pc,             \* position of the main function
    page,           \* discovery page cursor
    pagesFetched,   \* number of discovery pages requested so far
    firstGain,      \* entries the first discovery page added (-1 before it)
    stopped,        \* why the discovery loop ended ("" while it runs)
    jobIds,         \* search: the Set jobIds, in insertion order
    seedDetailUrls, \* search: the seeded detail URLs
    jobLinks,       \* listing: the Set jobLinks, in insertion order
    detailUrls,     \* the final candidate list
    reqs,           \* the crawler's request queue: the set of its requests
    saved,          \* the saved counter
    sink,           \* the dataset: the sequence of records pushed
    fnIn,           \* argument of the pure function under study
    fnOut           \* its result

runVars == <<cfg, pc, page, pagesFetched, firstGain, stopped, jobIds, seedDetailUrls,
             jobLinks, detailUrls, reqs, saved, sink>>
fnVars == <<fnIn, fnOut>>
vars == <<rev, runVars, fnVars>>

Revs == {"search", "listing", "crawl"}

-----------------------------------------------------------------------------
(* JavaScript values *)

Null == [t |-> "null"]
Undefined == [t |-> "undefined"]
True == [t |-> "boolean", b |-> TRUE]
S(s) == [t |-> "string", s |-> s]
Num(n) == [t |-> "number", n |-> n]
Arr(a) == [t |-> "array", a |-> a]
\* An object, as the sequence of its <<key, value>> entries.
Obj(e) == [t |-> "object", e |-> e]

\* JavaScript truthiness: null, undefined, "", 0 and false are falsy; an
\* array and an object are truthy.
Truthy(v) ==
    CASE v.t = "string" -> v.s # <<>>
      [] v.t = "number" -> v.n # 0
      [] v.t = "boolean" -> v.b
      [] v.t \in {"array", "object"} -> TRUE
      [] OTHER -> FALSE

\* a || b
Or(a, b) == IF Truthy(a) THEN a ELSE b

\* The value a pure function has not produced yet.
NotCalled == [t |-> "not called"]

-----------------------------------------------------------------------------
(* String helpers: String.prototype.trim, replace, split, join *)

\* "nl" is a line break.
Whitespace == {" ", "nl"}

RECURSIVE TrimStart(_)
TrimStart(s) ==
    IF s # <<>> /\ Head(s) \in Whitespace THEN TrimStart(Tail(s)) ELSE s

RECURSIVE TrimEnd(_)
TrimEnd(s) ==
    IF s # <<>> /\ s[Len(s)] \in Whitespace
    THEN TrimEnd(SubSeq(s, 1, Len(s) - 1))
    ELSE s

Trim(s) == TrimEnd(TrimStart(s))

\* s.replace(/[...]/g, ''): drop every token of the class.
RECURSIVE RemoveAll(_, _)
RemoveAll(s, class) ==
    IF s = <<>> THEN <<>>
    ELSE IF Head(s) \in class THEN RemoveAll(Tail(s), class)
    ELSE <<Head(s)>> \o RemoveAll(Tail(s), class)

\* s.split(/[...]/): the pieces between the tokens of the class.
RECURSIVE SplitOn(_, _, _)
SplitOn(s, class, cur) ==
    IF s = <<>> THEN <<cur>>
    ELSE IF Head(s) \in class THEN <<cur>> \o SplitOn(Tail(s), class, <<>>)
    ELSE SplitOn(Tail(s), class, Append(cur, Head(s)))

Split(s, class) == SplitOn(s, class, <<>>)

\* parts.join(sep)
RECURSIVE Join(_, _)
Join(parts, sep) ==
    IF parts = <<>> THEN <<>>
    ELSE IF Len(parts) = 1 THEN parts[1]
    ELSE parts[1] \o sep \o Join(Tail(parts), sep)

\* .map(f).filter(Boolean) for f = trim: trimmed pieces, the empty ones dropped.
RECURSIVE TrimmedNonEmpty(_)
TrimmedNonEmpty(parts) ==
    IF parts = <<>> THEN <<>>
    ELSE LET p == Trim(Head(parts))
         IN  (IF p = <<>> THEN <<>> ELSE <<p>>) \o TrimmedNonEmpty(Tail(parts))

\* String.prototype.toLowerCase on one token: the tokens of the model that
\* hold upper-case letters; every other token is its own lower-case form.
LowerCase(c) ==
    CASE c = "A" -> "a"
      [] c = "Access denied" -> "access denied"
      [] c = "Austin" -> "austin"
      [] c = "B" -> "b"
      [] c = "B Corp" -> "b corp"
      [] c = "CONTRACTOR" -> "contractor"
      [] c = "Contract" -> "contract"
      [] c = "Corp" -> "corp"
      [] c = "FULL_TIME" -> "full_time"
      [] c = "Hybrid" -> "hybrid"
      [] c = "Inc" -> "inc"
      [] c = "JobPosting" -> "jobposting"
      [] c = "MonetaryAmount" -> "monetaryamount"
      [] c = "NY" -> "ny"
      [] c = "New York" -> "new york"
      [] c = "Org" -> "org"
      [] c = "Organization" -> "organization"
      [] c = "Oslo" -> "oslo"
      [] c = "Paris" -> "paris"
      [] c = "REMOTE" -> "remote"
      [] c = "Remote" -> "remote"
      [] c = "Thing" -> "thing"
      [] c = "US" -> "us"
      [] c = "USD" -> "usd"
      [] OTHER -> c

\* p.toLowerCase().includes('remote')
IncludesRemote(p) == \E i \in 1..Len(p) : LowerCase(p[i]) = "remote"

-----------------------------------------------------------------------------
(* normalizeLocation *)

Brackets == {"[", "]"}

\* The character class of the split regex: /[|/,-]/ in main.js,
\* /[·•|/,-]/ in part_001 and part_002 ("mdot" is the middle dot,
\* "bullet" the bullet).
LocationDelimiters(r) ==
    IF r = "search" THEN {"|", "/", ",", "-"}
    ELSE {"mdot", "bullet", "|", "/", ",", "-"}

AllNullLocation ==
    [location |-> Null, is_remote |-> Null, remote_type |-> Null, region |-> Null]

\* The for loop over parts: the segments without "remote", in order.
RECURSIVE NonRemoteParts(_)
NonRemoteParts(parts) ==
    IF parts = <<>> THEN <<>>
    ELSE (IF IncludesRemote(Head(parts)) THEN <<>> ELSE <<Head(parts)>>)
         \o NonRemoteParts(Tail(parts))

\* The for loop over parts: the first segment with "remote", or null.
RECURSIVE FirstRemotePart(_)
FirstRemotePart(parts) ==
    IF parts = <<>> THEN Null
    ELSE IF IncludesRemote(Head(parts)) THEN S(Head(parts))
    ELSE FirstRemotePart(Tail(parts))

\* The decimal digits of the numbers the model uses, as tokens.
Decimal(n) ==
    CASE n = 0 -> "0" [] n = 1 -> "1" [] n = 2 -> "2" [] n = 3 -> "3"
      [] n = 4 -> "4" [] n = 5 -> "5" [] n = 6 -> "6" [] n = 7 -> "7"
      [] n = 8 -> "8" [] OTHER -> "9"

\* String(raw), and `${raw}` in a template literal
ToStringJs(v) ==
    CASE v.t = "string" -> v.s
      [] v.t = "number" -> <<Decimal(v.n)>>
      [] v.t = "boolean" -> <<IF v.b THEN "true" ELSE "false">>
      [] OTHER -> <<v.t>>

\* The result with is_remote false, not null, when no segment is remote.
LocationResultFalse(parts) ==
    LET locations == NonRemoteParts(parts)
        remoteType == FirstRemotePart(parts)
        isRemote == \E i \in 1..Len(parts) : IncludesRemote(parts[i])
        joined == Or(S(Join(locations, <<" ", "/", " ">>)), Null)
    IN  [location |-> joined,
         is_remote |-> [t |-> "boolean", b |-> isRemote],
         remote_type |-> Or(remoteType, Null),
         region |-> joined]

LocationResult(parts) ==
    LET locations == NonRemoteParts(parts)
        remoteType == FirstRemotePart(parts)
        isRemote == \E i \in 1..Len(parts) : IncludesRemote(parts[i])
        joined == Or(S(Join(locations, <<" ", "/", " ">>)), Null)
    IN  [location |-> joined,
         is_remote |-> IF isRemote THEN True ELSE Null,
         remote_type |-> Or(remoteType, Null),
         region |-> joined]

\* normalizeLocation without its guard on a falsy argument.
normalizeLocationUnguarded(r, raw) ==
    LET text == RemoveAll(Trim(ToStringJs(raw)), Brackets)
    IN  LocationResult(TrimmedNonEmpty(Split(text, LocationDelimiters(r))))

normalizeLocation(r, raw) ==
    IF ~Truthy(raw) THEN AllNullLocation
    ELSE LET text == RemoveAll(Trim(ToStringJs(raw)), Brackets)
         IN  LocationResult(TrimmedNonEmpty(Split(text, LocationDelimiters(r))))

-----------------------------------------------------------------------------
(* cleanText *)

\* Tokens that are markup: cheerio's .text() leaves them out.
Markup == {"<p>", "</p>", "<br>"}

\* txt.replace(/\s+/g, ' '): every run of whitespace becomes one space.
RECURSIVE CollapseWhitespace(_)
CollapseWhitespace(s) ==
    IF s = <<>> THEN <<>>
    ELSE IF Head(s) \in Whitespace
         THEN <<" ">> \o CollapseWhitespace(TrimStart(Tail(s)))
         ELSE <<Head(s)>> \o CollapseWhitespace(Tail(s))

\* cleanText of the first revision (main.js:24-29): '' for a falsy argument,
\* and no `|| null` on the result.
cleanTextFirst(html) ==
    IF ~Truthy(html) THEN S(<<>>)
    ELSE S(Trim(CollapseWhitespace(RemoveAll(ToStringJs(html), Markup))))

cleanText(html) ==
    IF ~Truthy(html) THEN Null
    ELSE LET txt == RemoveAll(ToStringJs(html), Markup)
         IN  Or(S(Trim(CollapseWhitespace(txt))), Null)

-----------------------------------------------------------------------------
(* URLs: new URL(url), extractJobId, the detail-URL test *)

\* An absolute URL string starts with an origin token; anything else makes
\* new URL(url) throw.
Origins ==
    {"https://powertofly.com", "https://www.powertofly.com", "https://site.example"}

\* The URL parser drops tabs and newlines and the spaces around the string.
UrlInput(url) == Trim(RemoveAll(url, {"nl"}))

IsAbsoluteUrl(url) == UrlInput(url) # <<>> /\ Head(UrlInput(url)) \in Origins

\* The index of the first "?" or "#" of the string, or Len + 1.
RECURSIVE QueryStart(_, _)
QueryStart(url, i) ==
    IF i > Len(url) \/ url[i] \in {"?", "#"} THEN i ELSE QueryStart(url, i + 1)

\* The path state of the URL parser: a space is percent-encoded.
RECURSIVE EncodePath(_)
EncodePath(seg) ==
    IF seg = <<>> THEN <<>>
    ELSE <<IF Head(seg) = " " THEN "%20" ELSE Head(seg)>> \o EncodePath(Tail(seg))

Pop(stack) == IF stack = <<>> THEN <<>> ELSE SubSeq(stack, 1, Len(stack) - 1)

\* The path state of the URL parser: "." is skipped and ".." drops the
\* segment before it; either of them at the end leaves a trailing slash.
RECURSIVE ResolveDots(_, _)
ResolveDots(segs, stack) ==
    IF segs = <<>> THEN stack
    ELSE IF Head(segs) = <<"..">>
         THEN (IF Tail(segs) = <<>> THEN Append(Pop(stack), <<>>)
               ELSE ResolveDots(Tail(segs), Pop(stack)))
    ELSE IF Head(segs) = <<".">>
         THEN (IF Tail(segs) = <<>> THEN Append(stack, <<>>)
               ELSE ResolveDots(Tail(segs), stack))
    ELSE ResolveDots(Tail(segs), Append(stack, EncodePath(Head(segs))))

\* new URL(url).pathname, for an absolute URL string.
Pathname(url) ==
    LET u == UrlInput(url)
        p == SubSeq(u, 2, QueryStart(u, 2) - 1)
    IN  IF p = <<>> THEN <<"/">>
        ELSE <<"/">> \o Join(ResolveDots(Split(Tail(p), {"/"}), <<>>), <<"/">>)

\* .filter(Boolean) on an array of strings
RECURSIVE NonEmpty(_)
NonEmpty(parts) ==
    IF parts = <<>> THEN <<>>
    ELSE (IF Head(parts) = <<>> THEN <<>> ELSE <<Head(parts)>>)
         \o NonEmpty(Tail(parts))

\* extractJobId returning the first path segment in place of the last.
extractJobIdFirst(url) ==
    IF ~IsAbsoluteUrl(url) THEN url
    ELSE LET parts == NonEmpty(Split(Pathname(url), {"/"}))
         IN  IF parts = <<>> THEN url ELSE parts[1]

\* extractJobId: a string (new URL throws on a string that is no URL, and
\* the catch returns the argument).
extractJobId(url) ==
    IF ~IsAbsoluteUrl(url) THEN url
    ELSE LET parts == NonEmpty(Split(Pathname(url), {"/"}))
         IN  IF parts = <<>> THEN url ELSE parts[Len(parts)]

\* s contains pat as a substring.
Contains(s, pat) ==
    \E i \in 1..(Len(s) - Len(pat) + 1) : SubSeq(s, i, i + Len(pat) - 1) = pat

\* /\/jobs\/detail\//i.test(url)
IsDetailUrl(url) == Contains(url, <<"/", "jobs", "/", "detail", "/">>)

DETAIL_BASE == <<"https://powertofly.com", "/", "jobs", "/", "detail", "/">>

\* `${DETAIL_BASE}${id}`
DetailUrlOf(id) == DETAIL_BASE \o ToStringJs(id)

-----------------------------------------------------------------------------
(* The detail-page handler's extraction: JSON-LD first, selectors second *)

LdFields ==
    {"title", "company", "description_html", "location", "date_posted",
     "job_type", "salary"}

\* What a detail page answers to the handler's queries.
\*   dom         - FALSE when the context has neither $ nor body
\*   ld          - parseJsonLd($): null, or data with the fields it set
\*   title, company, location, job_type, salary
\*               - $(selectors).first().text(), "" when nothing matches
\*   description - $(selectors).first().html(), null when nothing matches
\*   dateAttr    - dateEl.attr('datetime'), undefined when there is none
\*   dateText    - dateEl.text()
\*   dateIsTime  - dateEl.is('time'): the date element is a <time>
SelKeys ==
    {"title", "company", "description", "location", "dateAttr", "dateText",
     "job_type", "salary"}

\* data[f] of the JSON-LD data, undefined when ld is null ({...null} is {}).
LdGet(ld, f) == IF ld = Null THEN Undefined ELSE ld[f]

\* x.trim() || null
TrimOrNull(x) == Or(S(Trim(ToStringJs(x))), Null)

\* The selector fallback, taken in place of the JSON-LD value when it is set.
MergeFieldSelectorFirst(ldValue, selValue) ==
    IF Truthy(selValue) THEN selValue ELSE ldValue

\* if (!data.f) data.f = <selector value>
MergeField(ldValue, selValue) ==
    IF Truthy(ldValue) THEN ldValue ELSE selValue

\* desc ? desc.trim() : null  (part_002: desc.html()?.trim() || null)
DescriptionFromSelector(r, desc) ==
    IF r = "crawl"
    THEN (IF desc = Null THEN Null ELSE TrimOrNull(desc))
    ELSE (IF Truthy(desc) THEN S(Trim(ToStringJs(desc))) ELSE Null)

\* dateEl.attr('datetime')?.trim() || dateEl.text().trim() || null
DateFromSelector(attr, text) ==
    Or(IF attr = Undefined THEN Undefined ELSE S(Trim(ToStringJs(attr))),
       TrimOrNull(text))

\* The raw location string handed to normalizeLocation.
RawLocation(pg) ==
    MergeField(LdGet(pg.ld, "location"), TrimOrNull(pg.location))

\* data.description_html after the fallback.
DescriptionHtml(r, pg) ==
    MergeField(LdGet(pg.ld, "description_html"),
               DescriptionFromSelector(r, pg.description))

\* The item with every `|| null` of the handler left out.
assembleItemNoNulls(r, url, pg) ==
    LET locNorm == normalizeLocation(r, RawLocation(pg))
        html == MergeField(LdGet(pg.ld, "description_html"), pg.description)
    IN  [job_id |-> S(extractJobId(url)),
         url |-> S(url),
         title |-> MergeField(LdGet(pg.ld, "title"), S(Trim(ToStringJs(pg.title)))),
         company |-> MergeField(LdGet(pg.ld, "company"), S(Trim(ToStringJs(pg.company)))),
         location |-> locNorm.location,
         is_remote |-> locNorm.is_remote,
         remote_type |-> locNorm.remote_type,
         region |-> locNorm.region,
         salary |-> MergeField(LdGet(pg.ld, "salary"), S(Trim(ToStringJs(pg.salary)))),
         job_type |-> MergeField(LdGet(pg.ld, "job_type"), S(Trim(ToStringJs(pg.job_type)))),
         date_posted |-> MergeField(LdGet(pg.ld, "date_posted"),
                                    S(Trim(ToStringJs(pg.dateText)))),
         description_html |-> html,
         description_text |-> cleanText(html)]

\* The item with description_text taken from the JSON-LD description alone.
assembleItemTextFromLd(r, url, pg) ==
    LET locNorm == normalizeLocation(r, RawLocation(pg))
        html == DescriptionHtml(r, pg)
    IN  [job_id |-> S(extractJobId(url)),
         url |-> S(url),
         title |-> Or(MergeField(LdGet(pg.ld, "title"), TrimOrNull(pg.title)), Null),
         company |-> Or(MergeField(LdGet(pg.ld, "company"), TrimOrNull(pg.company)), Null),
         location |-> locNorm.location,
         is_remote |-> locNorm.is_remote,
         remote_type |-> locNorm.remote_type,
         region |-> locNorm.region,
         salary |-> Or(MergeField(LdGet(pg.ld, "salary"), TrimOrNull(pg.salary)), Null),
         job_type |-> Or(MergeField(LdGet(pg.ld, "job_type"), TrimOrNull(pg.job_type)), Null),
         date_posted |-> Or(MergeField(LdGet(pg.ld, "date_posted"),
                                       DateFromSelector(pg.dateAttr, pg.dateText)), Null),
         description_html |-> Or(html, Null),
         description_text |-> Or(cleanText(LdGet(pg.ld, "description_html")), Null)]

\* const item = {...}
assembleItem(r, url, pg) ==
    LET locNorm == normalizeLocation(r, RawLocation(pg))
        html == DescriptionHtml(r, pg)
    IN  [job_id |-> S(extractJobId(url)),
         url |-> S(url),
         title |-> Or(MergeField(LdGet(pg.ld, "title"), TrimOrNull(pg.title)), Null),
         company |-> Or(MergeField(LdGet(pg.ld, "company"), TrimOrNull(pg.company)), Null),
         location |-> locNorm.location,
         is_remote |-> locNorm.is_remote,
         remote_type |-> locNorm.remote_type,
         region |-> locNorm.region,
         salary |-> Or(MergeField(LdGet(pg.ld, "salary"), TrimOrNull(pg.salary)), Null),
         job_type |-> Or(MergeField(LdGet(pg.ld, "job_type"), TrimOrNull(pg.job_type)), Null),
         date_posted |-> Or(MergeField(LdGet(pg.ld, "date_posted"),
                                       DateFromSelector(pg.dateAttr, pg.dateText)), Null),
         description_html |-> Or(html, Null),
         description_text |-> Or(cleanText(html), Null)]

\* The item of the second revision (main.js:690-710): the thirteen fields,
\* with category and location_raw.  Its date fallback (lines 661-669) reads
\* the datetime attribute of a <time> element only, and the text otherwise.
assembleItemSecond(category, url, pg) ==
    LET raw == RawLocation(pg)
        ldDate == LdGet(pg.ld, "date_posted")
        date == IF Truthy(ldDate) THEN ldDate
                ELSE IF pg.dateIsTime /\ Truthy(pg.dateAttr)
                THEN S(Trim(ToStringJs(pg.dateAttr)))
                ELSE IF Truthy(S(Trim(ToStringJs(pg.dateText))))
                THEN S(Trim(ToStringJs(pg.dateText)))
                ELSE ldDate
    IN  [assembleItem("second", url, pg) EXCEPT !.date_posted = Or(date, Null)] @@
        [category |-> Or(category, Null),
         location_raw |-> IF Truthy(raw)
                          THEN S(RemoveAll(Trim(ToStringJs(raw)), Brackets))
                          ELSE Null]

\* The item the detail handler of a program pushes.
HandlerItem(r, c, url, pg) ==
    IF r = "second" THEN assembleItemSecond(c.category, url, pg)
    ELSE assembleItem(r, url, pg)

\* collectDetails = false: { job_id: extractJobId(url), url }
bareItem(url) == [job_id |-> S(extractJobId(url)), url |-> S(url)]

-----------------------------------------------------------------------------
(* Bounds of the model and constants of the programs *)

MaxWanted == 2      \* results_wanted ranges over 1..MaxWanted
MaxPageCap == 2     \* max_pages ranges over 1..MaxPageCap
MaxIds == 2         \* job ids are 1..MaxIds
MaxBatch == 2       \* entries on one discovery page

MaxFailing == 1     \* requests of one run whose fetches fail

maxRequestRetries == 3
maxConcurrency == 20
jobsPerPage == 60   \* maxRequestsPerCrawl: MAX_PAGES * 60

Ids == 1..MaxIds

Range(f) == {f[i] : i \in DOMAIN f}

\* Sequences over a set, up to a length.
SeqUpTo(set, n) == UNION {[1..k -> set] : k \in 0..n}

\* Set.prototype.add on a Set kept in insertion order.
SetAdd(seq, v) == IF v \in Range(seq) THEN seq ELSE Append(seq, v)

\* [...new Set(array)]
RECURSIVE Uniq(_)
Uniq(seq) ==
    IF seq = <<>> THEN <<>>
    ELSE LET init == Uniq(SubSeq(seq, 1, Len(seq) - 1))
         IN  SetAdd(init, seq[Len(seq)])

\* array.slice(0, n)
Slice(seq, n) == SubSeq(seq, 1, IF n < Len(seq) THEN n ELSE Len(seq))

\* array.map(f) for the two maps of the programs
RECURSIVE MapDetailUrlOf(_)
MapDetailUrlOf(ids) ==
    IF ids = <<>> THEN <<>>
    ELSE <<DetailUrlOf(Head(ids))>> \o MapDetailUrlOf(Tail(ids))

-----------------------------------------------------------------------------
(* Inputs *)

\* startUrl: none, the detail URL of job 1 as the scraper itself writes it,
\* and the same job's detail URL on the www host.
WwwDetailUrl(i) ==
    <<"https://www.powertofly.com", "/", "jobs", "/", "detail", "/", Decimal(i)>>

StartUrls == {<<>>, DetailUrlOf(Num(1)), WwwDetailUrl(1)}

\* Entries of data.jobs in a search response: a null entry, an entry
\* without id, and entries whose id is a number.
ApiJobs ==
    {Null, [id |-> Undefined]} \cup {[id |-> Num(i)] : i \in Ids}

\* href attributes of the anchors of a listing page: detail links, a detail
\* link of job 1 with a query string, and a link to the listing itself.
Hrefs ==
    {<<"/", "jobs", "/", "detail", "/", Decimal(i)>> : i \in Ids}
    \cup {<<"/", "jobs", "/", "detail", "/", Decimal(1), "?", "ref=home">>,
          <<"/", "jobs", "/", "?", "page=", Decimal(2)>>}

\* new URL(href, 'https://powertofly.com').href
ToAbs(href) ==
    IF IsAbsoluteUrl(href) THEN href ELSE <<"https://powertofly.com">> \o href

-----------------------------------------------------------------------------
(* Detail pages served to the handler *)

\* The value parseJsonLd sets for a field it finds.
LdValue(f) ==
    CASE f = "title" -> S(<<"A">>)
      [] f = "company" -> S(<<"A", " ", "Inc">>)
      [] f = "description_html" -> S(<<"<p>", "A", "nl", " ", "a", "</p>">>)
      [] f = "location" -> S(<<"New York", ",", " ", "NY">>)
      [] f = "date_posted" -> S(<<"2025-11-28">>)
      [] f = "job_type" -> S(<<"FULL_TIME">>)
      [] OTHER -> S(<<"100", " ", "USD">>)

\* What the first element matching a selector group holds.
SelValue(k) ==
    CASE k = "title" -> S(<<" ", "B", "nl">>)
      [] k = "company" -> S(<<"B", " ", "Corp">>)
      [] k = "description" -> S(<<"nl", "<p>", "B", " ", "nl", "b", "</p>", " ">>)
      [] k = "location" -> S(<<" ", "Remote", " ", "mdot", " ", "[", "NY", "]">>)
      [] k = "dateAttr" -> S(<<"2025-11-01", " ">>)
      [] k = "dateText" -> S(<<"3 days ago">>)
      [] k = "job_type" -> S(<<"Contract">>)
      [] OTHER -> S(<<"$", "B">>)

\* What a query answers when no element matches.
SelMissing(k) ==
    CASE k = "description" -> Null
      [] k = "dateAttr" -> Undefined
      [] OTHER -> S(<<>>)

Sel(k, found) == IF k \in found THEN SelValue(k) ELSE SelMissing(k)

LdObject(present) ==
    [f \in LdFields |-> IF f \in present THEN LdValue(f) ELSE Undefined]

PageOf(ld, found) ==
    [dom |-> TRUE, ld |-> ld,
     title |-> Sel("title", found), company |-> Sel("company", found),
     description |-> Sel("description", found),
     location |-> Sel("location", found),
     dateAttr |-> Sel("dateAttr", found), dateText |-> Sel("dateText", found),
     dateIsTime |-> TRUE,
     job_type |-> Sel("job_type", found), salary |-> Sel("salary", found)]

\* The context carries neither $ nor body.
NoDomPage == [PageOf(Null, {}) EXCEPT !.dom = FALSE]

\* parseJsonLd results: no JobPosting, every subset of the fields, and a
\* baseSalary without amount, currency and unit (salary is "").
LdObjects ==
    {Null} \cup {LdObject(present) : present \in SUBSET LdFields}
    \cup {[LdObject(LdFields) EXCEPT !.salary = S(<<>>)]}

\* Selector answers: the groups found together on a page.
SelGroups ==
    {{"title", "company"}, {"description"}, {"location", "salary", "job_type"},
     {"dateAttr"}, {"dateText"}}

FoundSets == {UNION g : g \in SUBSET SelGroups}

\* Pages whose only text is whitespace.
BlankPage ==
    [PageOf(Null, {}) EXCEPT !.title = S(<<" ">>), !.description = S(<<" ", "nl">>),
                             !.location = S(<<"nl">>), !.dateText = S(<<" ">>)]

AllPages ==
    {PageOf(ld, found) : ld \in LdObjects, found \in FoundSets}
    \cup {BlankPage, NoDomPage}

\* The pages the crawls of whole runs are served.
RunPages == {PageOf(LdObject(LdFields), SelKeys), NoDomPage}

NoPage == [t |-> "no page"]

-----------------------------------------------------------------------------
(* Requests of the crawler *)

\* crawler.run(urls.map((url) => ({ url }))) / addRequests
DetailRequest(url) ==
    [url |-> url, label |-> "DETAIL", pageNo |-> 0, retries |-> 0,
     st |-> "PENDING", pg |-> NoPage, next |-> <<>>]

Terminal == {"EXTRACTED", "SKIPPED", "NO_DOM", "HANDLED", "FAILED"}

\* Requests whose handler is suspended at an await: a detail handler at its
\* push (FETCHED), a LIST handler at the enqueueing or the push of the links
\* of its page (LISTED) or at the enqueueing of the next page (PAGINATING).
InFlight == {r \in reqs : r.st \in {"FETCHED", "LISTED", "PAGINATING"}}

\* Records of the sink pushed for a URL.
RecordsOf(url) == {i \in 1..Len(sink) : sink[i].url = S(url)}

-----------------------------------------------------------------------------
(* Discovery: the search-API loop (main.js) and the listing loop (part_001) *)

\* The body of `for (const job of jobs)`.
AddJob(ids, job, dedupe) ==
    IF job = Null \/ ~Truthy(job.id) THEN ids
    ELSE IF ~dedupe \/ job.id \notin Range(ids) THEN SetAdd(ids, job.id)
    ELSE ids

RECURSIVE AddJobs(_, _, _)
AddJobs(ids, jobs, dedupe) ==
    IF jobs = <<>> THEN ids
    ELSE AddJobs(AddJob(ids, Head(jobs), dedupe), Tail(jobs), dedupe)

\* The body of both .each() callbacks of the listing loop.
AddLink(links, href) ==
    LET abs == ToAbs(href)
    IN  IF IsDetailUrl(abs) THEN SetAdd(links, abs) ELSE links

RECURSIVE AddLinks(_, _)
AddLinks(links, hrefs) ==
    IF hrefs = <<>> THEN links
    ELSE AddLinks(AddLink(links, Head(hrefs)), Tail(hrefs))

\* The size the while condition reads.
CollectedSize == IF rev = "search" THEN Len(jobIds) ELSE Len(jobLinks)

LoopCondition ==
    page <= cfg.MAX_PAGES /\ CollectedSize < cfg.RESULTS_WANTED

\* The collection after a catch that throws away what was collected.
KeptOnErrorNone(collected) == <<>>

\* catch (err) { log.error(...); break; }: the loop ends and the collection
\* stays as the earlier pages left it.
KeptOnError(collected) == collected

\* One iteration of the search loop; the request or JSON.parse may throw.
SearchPage ==
    /\ rev = "search" /\ pc = "discover" /\ LoopCondition
    /\ pagesFetched' = pagesFetched + 1
    /\ \E ok \in BOOLEAN, jobs \in SeqUpTo(ApiJobs, MaxBatch) :
         /\ ok \/ jobs = <<>>
         /\ LET ids == AddJobs(jobIds, jobs, cfg.dedupe)
                gained == Len(ids) - Len(jobIds)
            IN  IF ~ok
                THEN /\ stopped' = "error" /\ pc' = "collected"
                     /\ jobIds' = KeptOnError(jobIds)
                     /\ UNCHANGED <<page, firstGain>>
                ELSE /\ jobIds' = ids
                     /\ firstGain' = IF pagesFetched = 0 THEN gained ELSE firstGain
                     /\ IF Len(jobs) = 0 \/ gained = 0
                        THEN stopped' = "nogain" /\ pc' = "collected" /\ page' = page
                        ELSE IF Len(ids) >= cfg.RESULTS_WANTED
                        THEN stopped' = "quota" /\ pc' = "collected" /\ page' = page
                        ELSE stopped' = stopped /\ pc' = pc /\ page' = page + 1
    /\ UNCHANGED <<rev, cfg, seedDetailUrls, jobLinks, detailUrls, reqs, saved, sink, fnVars>>

\* One iteration of the listing loop: the job cards first, then every anchor.
ListingPage ==
    /\ rev = "listing" /\ pc = "discover" /\ LoopCondition
    /\ pagesFetched' = pagesFetched + 1
    /\ \E ok \in BOOLEAN, anchors \in SeqUpTo(Hrefs, MaxBatch) :
       \E cards \in {<<>>} \cup {<<a>> : a \in Range(anchors)} :
         /\ ok \/ anchors = <<>>
         /\ LET links == AddLinks(AddLinks(jobLinks, cards), anchors)
                gained == Len(links) - Len(jobLinks)
            IN  IF ~ok
                THEN /\ stopped' = "error" /\ pc' = "collected"
                     /\ jobLinks' = KeptOnError(jobLinks)
                     /\ UNCHANGED <<page, firstGain>>
                ELSE /\ jobLinks' = links
                     /\ firstGain' = IF pagesFetched = 0 THEN gained ELSE firstGain
                     /\ IF gained = 0
                        THEN stopped' = "nogain" /\ pc' = "collected" /\ page' = page
                        ELSE IF Len(links) >= cfg.RESULTS_WANTED
                        THEN stopped' = "quota" /\ pc' = "collected" /\ page' = page
                        ELSE stopped' = stopped /\ pc' = pc /\ page' = page + 1
    /\ UNCHANGED <<rev, cfg, jobIds, seedDetailUrls, detailUrls, reqs, saved, sink, fnVars>>

\* The while condition is false.
LoopEnd ==
    /\ rev \in {"search", "listing"} /\ pc = "discover" /\ ~LoopCondition
    /\ pc' = "collected"
    /\ stopped' = IF CollectedSize >= cfg.RESULTS_WANTED THEN "quota" ELSE "cap"
    /\ UNCHANGED <<rev, cfg, page, pagesFetched, firstGain, jobIds, seedDetailUrls,
                   jobLinks, detailUrls, reqs, saved, sink, fnVars>>

\* The guard of the early return after the loop; never taken.
NothingCollectedNever(r, ids, seeds, links) == FALSE

\* if (jobIds.size === 0 && seedDetailUrls.length === 0) / if (jobLinks.size === 0)
NothingCollected(r, ids, seeds, links) ==
    IF r = "search" THEN Len(ids) = 0 /\ Len(seeds) = 0 ELSE Len(links) = 0

\* The candidate list without its slice(0, RESULTS_WANTED).
CandidateUrlsUnsliced(r, ids, seeds, links, wanted) ==
    IF r = "search" THEN Uniq(seeds \o MapDetailUrlOf(ids)) ELSE links

\* The candidate list with the seeded URLs after the synthesized ones.
CandidateUrlsSeedLast(r, ids, seeds, links, wanted) ==
    IF r = "search"
    THEN Slice(Uniq(MapDetailUrlOf(ids) \o seeds), wanted)
    ELSE Slice(links, wanted)

\* The candidate list, by string identity and without the canonical job id.
CandidateUrls(r, ids, seeds, links, wanted) ==
    IF r = "search"
    THEN Slice(Uniq(seeds \o MapDetailUrlOf(ids)), wanted)
    ELSE Slice(links, wanted)

\* if (!collectDetails): main.js alone reads the input; part_001 does not
\* take it and part_002 keeps it "for backwards compatibility" only.
BareBranch(r, c) == r = "search" /\ ~c.collectDetails

\* The early return on an empty discovery.
ExitEmpty ==
    /\ pc = "collected"
    /\ NothingCollected(rev, jobIds, seedDetailUrls, jobLinks)
    /\ pc' = "done"
    /\ UNCHANGED <<rev, cfg, page, pagesFetched, firstGain, stopped, jobIds,
                   seedDetailUrls, jobLinks, detailUrls, reqs, saved, sink, fnVars>>

\* detailUrls is built; then the bare branch or detailCrawler.run(...).
StartDetails ==
    /\ pc = "collected"
    /\ ~NothingCollected(rev, jobIds, seedDetailUrls, jobLinks)
    /\ detailUrls' = CandidateUrls(rev, jobIds, seedDetailUrls, jobLinks, cfg.RESULTS_WANTED)
    /\ IF BareBranch(rev, cfg)
       THEN pc' = "bare" /\ reqs' = reqs
       ELSE pc' = "crawling" /\ reqs' = {DetailRequest(u) : u \in Range(detailUrls')}
    /\ UNCHANGED <<rev, cfg, page, pagesFetched, firstGain, stopped, jobIds,
                   seedDetailUrls, jobLinks, saved, sink, fnVars>>

\* collectDetails = false: one iteration of `for (const url of detailUrls)`.
PushBare ==
    /\ pc = "bare"
    /\ IF Len(sink) < Len(detailUrls)
       THEN sink' = Append(sink, bareItem(detailUrls[Len(sink) + 1])) /\ pc' = pc
       ELSE sink' = sink /\ pc' = "done"
    /\ UNCHANGED <<rev, cfg, page, pagesFetched, firstGain, stopped, jobIds,
                   seedDetailUrls, jobLinks, detailUrls, reqs, saved, fnVars>>

-----------------------------------------------------------------------------
(* The crawler: fetches with retries, and the request handler *)

\* Requests with a failed fetch so far.
Failing(rs) == {r \in rs : r.retries > 0 \/ r.st = "FAILED"}

\* Requests the crawler has finished with (maxRequestsPerCrawl counts them).
Finished(rs) == {r \in rs : r.st \in Terminal}

CanStart(r) ==
    /\ pc = "crawling" /\ r \in reqs /\ r.st = "PENDING"
    /\ Cardinality(InFlight) < maxConcurrency
    /\ rev = "crawl" => Cardinality(Finished(reqs)) < cfg.MAX_PAGES * jobsPerPage

\* addRequests: the queue keeps one request per URL.
AddRequests(rs, new) == rs \cup {n \in new : \A r \in rs : r.url # n.url}

\* A failed request given one retry more than maxRequestRetries.
ReclaimOnceMore(r) ==
    IF r.retries < maxRequestRetries + 1
    THEN [r EXCEPT !.retries = r.retries + 1]
    ELSE [r EXCEPT !.st = "FAILED"]

\* maxRequestRetries: 3.  A failed request goes back to the queue until it
\* has been retried maxRequestRetries times; the next failure is final.
Reclaim(r) ==
    IF r.retries < maxRequestRetries
    THEN [r EXCEPT !.retries = r.retries + 1]
    ELSE [r EXCEPT !.st = "FAILED"]

\* The fetch of a request fails (timeout, network error, 5xx), or its
\* handler throws: the crawler retries the request up to maxRequestRetries
\* times, then marks it failed.
FetchFails ==
    /\ \E r \in reqs :
         /\ CanStart(r)
         /\ r \in Failing(reqs) \/ Cardinality(Failing(reqs)) < MaxFailing
         /\ reqs' = (reqs \ {r}) \cup {Reclaim(r)}
    /\ UNCHANGED <<rev, cfg, pc, page, pagesFetched, firstGain, stopped, jobIds,
                   seedDetailUrls, jobLinks, detailUrls, saved, sink, fnVars>>

\* The quota test at the top of the detail handler, left out.
QuotaReachedNever(count, wanted) == FALSE

\* if (saved >= RESULTS_WANTED) return;
QuotaReached(count, wanted) == count >= wanted

\* The detail handler up to `await Dataset.pushData(item)`.
DetailStartOn(pages) ==
    /\ \E r \in {q \in reqs : CanStart(q) /\ q.label = "DETAIL"}, pg \in pages :
         /\ IF QuotaReached(saved, cfg.RESULTS_WANTED)
            THEN /\ reqs' = (reqs \ {r}) \cup {[r EXCEPT !.st = "SKIPPED"]}
                 /\ sink' = sink
            ELSE IF ~pg.dom
            THEN /\ reqs' = (reqs \ {r}) \cup {[r EXCEPT !.st = "NO_DOM", !.pg = pg]}
                 /\ sink' = sink
            ELSE /\ reqs' = (reqs \ {r}) \cup {[r EXCEPT !.st = "FETCHED", !.pg = pg]}
                 /\ sink' = Append(sink, HandlerItem(rev, cfg, r.url, pg))
    /\ UNCHANGED <<rev, cfg, pc, page, pagesFetched, firstGain, stopped, jobIds,
                   seedDetailUrls, jobLinks, detailUrls, saved, fnVars>>

DetailStart == DetailStartOn(RunPages)

\* saved += 1
Incremented(count) == count + 1

\* The detail handler after the await: saved += 1.
DetailFinish ==
    /\ pc = "crawling"
    /\ \E r \in reqs :
         /\ r.st = "FETCHED"
         /\ reqs' = (reqs \ {r}) \cup {[r EXCEPT !.st = "EXTRACTED"]}
    /\ saved' = Incremented(saved)
    /\ UNCHANGED <<rev, cfg, pc, page, pagesFetched, firstGain, stopped, jobIds,
                   seedDetailUrls, jobLinks, detailUrls, sink, fnVars>>

\* The crawl given up at the first failed request.
RunEndsOnFailure(rs) ==
    \/ \E r \in rs : r.st = "FAILED"
    \/ \A r \in rs : r.st \in Terminal

\* The queue is drained: no request is pending or in flight.  A failed
\* request is logged and the crawl goes on.
RunEnds(rs) == \A r \in rs : r.st \in Terminal

\* crawler.run() resolves once no request is pending or in flight.  A
\* handler the crawler has abandoned at a timeout is none of its requests:
\* the run does not wait for it.
CrawlerDone ==
    /\ pc = "crawling"
    /\ RunEnds({r \in reqs : r.st # "ABANDONED"})
    /\ pc' = "done"
    /\ UNCHANGED <<rev, cfg, page, pagesFetched, firstGain, stopped, jobIds,
                   seedDetailUrls, jobLinks, detailUrls, reqs, saved, sink, fnVars>>

-----------------------------------------------------------------------------
(* The LIST handler of the crawl program (part_002) *)

\* The default start URL, https://powertofly.com/jobs/
BaseListingUrl == <<"https://powertofly.com", "/", "jobs", "/">>

ListUrl(k) == BaseListingUrl \o <<"?", "page=", Decimal(k)>>

ListRequest(url, pageNo) ==
    [url |-> url, label |-> "LIST", pageNo |-> pageNo, retries |-> 0,
     st |-> "PENDING", pg |-> NoPage, next |-> <<>>]

\* Number(u.searchParams.get('page') || pageNo || 1)
CurrentPage(url, pageNo) ==
    IF \E i \in 1..(Len(url) - 1) : url[i] = "page="
    THEN LET i == CHOOSE j \in 1..(Len(url) - 1) : url[j] = "page="
         IN  CHOOSE n \in 0..9 : Decimal(n) = url[i + 1]
    ELSE IF pageNo # 0 THEN pageNo ELSE 1

\* buildNextPageUrl: the current URL with page set to the current page + 1.
\* u.searchParams.set('page', n) replaces the value of the page parameter,
\* or adds the parameter after the others.
buildNextPageUrl(url, pageNo) ==
    LET n == CurrentPage(url, pageNo) + 1
    IN  IF \E i \in 1..(Len(url) - 1) : url[i] = "page="
        THEN LET i == CHOOSE j \in 1..(Len(url) - 1) : url[j] = "page="
             IN  [url EXCEPT ![i + 1] = Decimal(n)]
        ELSE url \o <<IF \E i \in 1..Len(url) : url[i] = "?" THEN "&" ELSE "?",
                      "page=", Decimal(n)>>

\* findJobLinks: a Set filled from the job cards, then from every anchor.
findJobLinks(cards, anchors) == AddLinks(AddLinks(<<>>, cards), anchors)

\* What findNextPage can find on a page: nothing, or a further listing URL.
NextLinks == {<<>>} \cup {ListUrl(k) : k \in 2..MaxPageCap}

\* The LIST handler up to its first await (addRequests of the detail links).
ListStart ==
    /\ \E r \in {q \in reqs : CanStart(q) /\ q.label = "LIST"}, dom \in BOOLEAN,
          anchors \in SeqUpTo(Hrefs, MaxBatch), nextHtml \in NextLinks :
       \E cards \in {<<>>} \cup {<<a>> : a \in Range(anchors)} :
         /\ dom \/ (anchors = <<>> /\ nextHtml = <<>>)
         /\ LET links == findJobLinks(cards, anchors)
                remaining == cfg.RESULTS_WANTED - saved
            IN  IF ~dom
                THEN reqs' = (reqs \ {r}) \cup {[r EXCEPT !.st = "NO_DOM"]}
                ELSE IF remaining > 0
                THEN reqs' = AddRequests(
                         (reqs \ {r}) \cup {[r EXCEPT !.st = "LISTED", !.next = nextHtml]},
                         {DetailRequest(u) : u \in Range(Slice(links, remaining))})
                ELSE reqs' = (reqs \ {r}) \cup {[r EXCEPT !.st = "HANDLED"]}
    /\ pagesFetched' = pagesFetched + 1
    /\ UNCHANGED <<rev, cfg, pc, page, firstGain, stopped, jobIds, seedDetailUrls,
                   jobLinks, detailUrls, saved, sink, fnVars>>

\* The LIST handler after its first await: pagination, up to
\* `await crawler.addRequests([next page])`; with no page to add it returns.
ListPaginate ==
    /\ pc = "crawling"
    /\ \E r \in reqs :
         /\ r.st = "LISTED"
         /\ LET next == IF r.next # <<>> THEN r.next
                        ELSE buildNextPageUrl(r.url, r.pageNo)
            IN  IF saved < cfg.RESULTS_WANTED /\ r.pageNo < cfg.MAX_PAGES
                THEN reqs' = AddRequests(
                         (reqs \ {r}) \cup {[r EXCEPT !.st = "PAGINATING"]},
                         {ListRequest(next, r.pageNo + 1)})
                ELSE reqs' = (reqs \ {r}) \cup {[r EXCEPT !.st = "HANDLED"]}
    /\ UNCHANGED <<rev, cfg, pc, page, pagesFetched, firstGain, stopped, jobIds,
                   seedDetailUrls, jobLinks, detailUrls, saved, sink, fnVars>>

\* The enqueueing of the next page resolves and the LIST handler returns.
ListReturn ==
    /\ pc = "crawling"
    /\ \E r \in reqs :
         /\ r.st = "PAGINATING"
         /\ reqs' = (reqs \ {r}) \cup {[r EXCEPT !.st = "HANDLED"]}
    /\ UNCHANGED <<rev, cfg, pc, page, pagesFetched, firstGain, stopped, jobIds,
                   seedDetailUrls, jobLinks, detailUrls, saved, sink, fnVars>>

-----------------------------------------------------------------------------
(* Initial states and specifications *)

Configs(r) ==
    [RESULTS_WANTED : 1..MaxWanted, MAX_PAGES : 1..MaxPageCap,
     dedupe : IF r = "search" THEN BOOLEAN ELSE {TRUE},
     collectDetails : IF r = "search" THEN BOOLEAN ELSE {TRUE},
     startUrl : IF r = "search" THEN StartUrls ELSE {<<>>}]

\* The state when discovery (or, in the crawl program, the crawler) starts.
InitRun(r) ==
    /\ rev = r
    /\ cfg \in Configs(r)
    /\ pc = IF r = "crawl" THEN "crawling" ELSE "discover"
    /\ page = 1
    /\ pagesFetched = 0
    /\ firstGain = -1
    /\ stopped = ""
    /\ seedDetailUrls = IF IsDetailUrl(cfg.startUrl) THEN <<cfg.startUrl>> ELSE <<>>
    /\ jobIds = IF IsDetailUrl(cfg.startUrl)
                THEN <<S(extractJobId(cfg.startUrl))>> ELSE <<>>
    /\ jobLinks = <<>>
    /\ detailUrls = <<>>
    /\ reqs = IF r = "crawl" THEN {ListRequest(BaseListingUrl, 1)} ELSE {}
    /\ saved = 0
    /\ sink = <<>>
    /\ fnIn = NotCalled
    /\ fnOut = NotCalled

InitSearch == InitRun("search")
InitListing == InitRun("listing")
InitCrawl == InitRun("crawl")

NextSearch ==
    \/ SearchPage \/ LoopEnd \/ ExitEmpty \/ StartDetails \/ PushBare
    \/ FetchFails \/ DetailStart \/ DetailFinish \/ CrawlerDone

NextListing ==
    \/ ListingPage \/ LoopEnd \/ ExitEmpty \/ StartDetails
    \/ FetchFails \/ DetailStart \/ DetailFinish \/ CrawlerDone

NextCrawl ==
    \/ ListStart \/ ListPaginate \/ ListReturn
    \/ FetchFails \/ DetailStart \/ DetailFinish \/ CrawlerDone

SpecSearch == InitSearch /\ [][NextSearch]_vars
SpecListing == InitListing /\ [][NextListing]_vars
SpecCrawl == InitCrawl /\ [][NextCrawl]_vars

-----------------------------------------------------------------------------
(* The detail phase on one candidate URL, served any page *)

HandlerUrls == {DetailUrlOf(Num(1)), WwwDetailUrl(1)}

\* The state after discovery ended with one candidate (in the crawl program:
\* after the first LIST page was handled and gave one link).
InitHandler ==
    /\ rev \in Revs
    /\ cfg \in [RESULTS_WANTED : {1}, MAX_PAGES : {1}, dedupe : {TRUE},
                collectDetails : BOOLEAN, startUrl : {<<>>}]
    /\ \E u \in HandlerUrls :
         /\ detailUrls = IF rev = "crawl" THEN <<>> ELSE <<u>>
         /\ jobIds = IF rev = "search" /\ u = DetailUrlOf(Num(1)) THEN <<Num(1)>> ELSE <<>>
         /\ seedDetailUrls = <<>>
         /\ jobLinks = IF rev = "listing" THEN <<u>> ELSE <<>>
         /\ rev = "search" => u = DetailUrlOf(Num(1))
         /\ reqs = IF BareBranch(rev, cfg) THEN {}
                   ELSE {DetailRequest(u)} \cup
                        (IF rev = "crawl"
                         THEN {[ListRequest(BaseListingUrl, 1) EXCEPT !.st = "HANDLED"]}
                         ELSE {})
    /\ pc = IF BareBranch(rev, cfg) THEN "bare" ELSE "crawling"
    /\ page = 1
    /\ pagesFetched = 1
    /\ firstGain = 1
    /\ stopped = IF rev = "crawl" THEN "" ELSE "quota"
    /\ saved = 0
    /\ sink = <<>>
    /\ fnIn = NotCalled
    /\ fnOut = NotCalled

DetailStartAnyPage == DetailStartOn(AllPages)

NextHandler ==
    \/ PushBare \/ FetchFails \/ DetailStartAnyPage \/ DetailFinish \/ CrawlerDone

SpecHandler == InitHandler /\ [][NextHandler]_vars

-----------------------------------------------------------------------------
(* normalizeLocation on its own *)

MaxPieces == 3      \* segments of a raw location string

SixDelimiters == {"mdot", "bullet", "|", "/", ",", "-"}

\* Texts between two delimiters of a raw location.
Pieces ==
    {<<>>, <<"Remote", " ">>, <<" ", "New York">>, <<" ", "NY">>,
     <<"[", "Hybrid", " ", "REMOTE", "]">>}

RECURSIVE RawLocations(_)
RawLocations(n) ==
    IF n = 1 THEN Pieces
    ELSE LET shorter == RawLocations(n - 1)
         IN  shorter \cup {s \o <<d>> \o p : s \in shorter, d \in SixDelimiters, p \in Pieces}

LocationInputs ==
    {Null, Undefined, S(<<" ">>)} \cup {S(s) : s \in RawLocations(MaxPieces)}

\* Every variable of a run, at rest while a pure function is studied.
IdleRun(name) ==
    /\ cfg = [RESULTS_WANTED |-> 1, MAX_PAGES |-> 1, dedupe |-> TRUE,
              collectDetails |-> TRUE, startUrl |-> <<>>]
    /\ pc = name
    /\ page = 1 /\ pagesFetched = 0 /\ firstGain = -1 /\ stopped = ""
    /\ jobIds = <<>> /\ seedDetailUrls = <<>> /\ jobLinks = <<>>
    /\ detailUrls = <<>> /\ reqs = {} /\ saved = 0 /\ sink = <<>>

InitNormalize ==
    /\ rev \in Revs
    /\ IdleRun("normalizeLocation")
    /\ fnIn \in LocationInputs
    /\ fnOut = NotCalled

CallNormalizeLocation ==
    /\ pc = "normalizeLocation" /\ fnOut = NotCalled
    /\ fnOut' = normalizeLocation(rev, fnIn)
    /\ UNCHANGED <<rev, runVars, fnIn>>

NextNormalize == CallNormalizeLocation

SpecNormalize == InitNormalize /\ [][NextNormalize]_vars

-----------------------------------------------------------------------------
(* Properties *)

Min(a, b) == IF a < b THEN a ELSE b

Started == pc \in {"crawling", "bare", "done"}

\* The canonical job id of an entry of jobIds and of a URL.
IdOfEntry(id) == ToStringJs(id)
IdsOfUrls(urls) == [i \in 1..Len(urls) |-> extractJobId(urls[i])]
IdsOfEntries(ids) == [i \in 1..Len(ids) |-> IdOfEntry(ids[i])]

\* The job ids in the order discovery first saw them.
FirstSeenIds ==
    Uniq(IdsOfUrls(seedDetailUrls) \o IdsOfEntries(jobIds) \o IdsOfUrls(jobLinks))

NoRepeat(seq) == \A i, j \in 1..Len(seq) : i # j => seq[i] # seq[j]

JobRecordKeys ==
    {"job_id", "url", "title", "company", "location", "is_remote", "remote_type",
     "region", "salary", "job_type", "date_posted", "description_html",
     "description_text"}

NullOrNonEmpty(v) ==
    \/ v = Null
    \/ v = True
    \/ v.t = "string" /\ v.s # <<>>

NonEmptyString(v) == v.t = "string" /\ v.s # <<>>

\* C1: the number of records in the sink never exceeds results_wanted.
\* The crawl program breaks it: two DETAIL handlers pass the quota test
\* before either has counted its record.
C1_SinkWithinQuota == Len(sink) <= cfg.RESULTS_WANTED

\* C2: once discovery has ended, the candidate list holds the first
\* min(results_wanted, number of distinct job ids discovered) job ids, one
\* entry each, in the order discovery first saw them.
C2_CandidatesAreFirstSeenIds ==
    Started =>
        /\ Len(detailUrls) = Min(cfg.RESULTS_WANTED, Len(FirstSeenIds))
        /\ IdsOfUrls(detailUrls) = Slice(FirstSeenIds, cfg.RESULTS_WANTED)

\* C3: no two entries of the discovery collections or of the candidate list
\* have the same canonical job id.
C3_NoTwoEntriesShareJobId ==
    /\ NoRepeat(IdsOfEntries(jobIds))
    /\ NoRepeat(IdsOfUrls(jobLinks))
    /\ NoRepeat(IdsOfUrls(detailUrls))

\* C4: a candidate URL whose fetch failed on every attempt has exactly one
\* record in the sink, a stub with its job_id and url and null elsewhere.
C4_StubForFailedUrl ==
    \A r \in reqs :
        r.label = "DETAIL" /\ r.st = "FAILED" =>
            /\ Cardinality(RecordsOf(r.url)) = 1
            /\ \A i \in RecordsOf(r.url) :
                 /\ sink[i].job_id = S(extractJobId(r.url))
                 /\ \A k \in DOMAIN sink[i] \ {"job_id", "url"} : sink[i][k] = Null

\* C5: when discovery ends with nothing collected, the detail phase is never
\* entered: no candidate list, no request, no record, and the run ends.
C5_EmptyDiscoveryEndsRun ==
    (pc # "discover" /\ Len(jobIds) = 0 /\ Len(seedDetailUrls) = 0 /\ Len(jobLinks) = 0)
        => /\ pc \in {"collected", "done"}
           /\ detailUrls = <<>>
           /\ reqs = {}
           /\ sink = <<>>

C5_Witness ==
    /\ rev = "search" /\ pc = "done" /\ pagesFetched >= 1
    /\ jobIds = <<>> /\ seedDetailUrls = <<>> /\ sink = <<>> /\ reqs = {}

\* Every fetch of the detail phase succeeded and gave a page.
AllFetchesSucceeded ==
    /\ stopped # "error"
    /\ \A r \in reqs : r.retries = 0 /\ r.st \notin {"FAILED", "NO_DOM"}

\* C6: in the listing program, when the first listing page gives at least
\* results_wanted detail links, one listing page is fetched and exactly
\* results_wanted URLs are enqueued; when every fetch succeeds the run ends
\* with exactly results_wanted records, each with a job_id and a url.
C6_FirstPageFillsQuota ==
    (rev = "listing" /\ firstGain >= cfg.RESULTS_WANTED) =>
        /\ pagesFetched = 1
        /\ Started => /\ Len(detailUrls) = cfg.RESULTS_WANTED
                      /\ Cardinality(reqs) = cfg.RESULTS_WANTED
        /\ (pc = "done" /\ AllFetchesSucceeded) =>
              /\ Len(sink) = cfg.RESULTS_WANTED
              /\ \A i \in 1..Len(sink) :
                   /\ "job_id" \in DOMAIN sink[i] /\ sink[i].job_id # Null
                   /\ "url" \in DOMAIN sink[i] /\ sink[i].url # Null

C6_Witness ==
    /\ rev = "listing" /\ pc = "done" /\ cfg.RESULTS_WANTED = 2
    /\ firstGain >= 2 /\ pagesFetched = 1
    /\ AllFetchesSucceeded
    /\ Len(sink) = 2

\* C7 as stated: every record of the sink, in every run mode, has the
\* thirteen keys, each null or non-empty.  The records of a run with
\* collectDetails = false break it.
C7_EveryRecordHasAllKeys ==
    \A i \in 1..Len(sink) :
        /\ DOMAIN sink[i] = JobRecordKeys
        /\ \A k \in JobRecordKeys : NullOrNonEmpty(sink[i][k])

\* C7: a record pushed by the detail handler has the thirteen keys, each
\* null or non-empty; a record pushed by the collectDetails = false branch of
\* main.js has the keys job_id and url only, both non-empty strings.
C7_RecordShapeByMode ==
    \A i \in 1..Len(sink) :
        IF ~(rev = "search" /\ ~cfg.collectDetails)
        THEN /\ DOMAIN sink[i] = JobRecordKeys
             /\ \A k \in JobRecordKeys : NullOrNonEmpty(sink[i][k])
        ELSE /\ DOMAIN sink[i] = {"job_id", "url"}
             /\ NonEmptyString(sink[i].job_id)
             /\ NonEmptyString(sink[i].url)

C7_Witness ==
    /\ rev = "search" /\ cfg.collectDetails /\ Len(sink) = 1
    /\ \E r \in reqs : r.st = "EXTRACTED" /\ r.pg.ld = Null
    /\ sink[1].title = Null /\ sink[1].salary = Null
    /\ sink[1].description_html # Null

SimpleLdFields == LdFields \ {"location"}

\* C8: for title, company, description_html, location, date_posted, job_type
\* and salary, when the page's JSON-LD gives a value the record's field comes
\* from it, whatever the selectors find.
C8_JsonLdTakesPrecedence ==
    \A r \in reqs :
        (r.label = "DETAIL" /\ r.st \in {"FETCHED", "EXTRACTED"}) =>
            \A i \in RecordsOf(r.url) :
                /\ \A f \in SimpleLdFields :
                     Truthy(LdGet(r.pg.ld, f)) => sink[i][f] = r.pg.ld[f]
                /\ Truthy(LdGet(r.pg.ld, "location")) =>
                     LET fromLd == normalizeLocation(rev, r.pg.ld.location)
                     IN  /\ sink[i].location = fromLd.location
                         /\ sink[i].is_remote = fromLd.is_remote
                         /\ sink[i].remote_type = fromLd.remote_type
                         /\ sink[i].region = fromLd.region

C8_Witness ==
    /\ Len(sink) = 1
    /\ \E r \in reqs :
         /\ r.st = "EXTRACTED"
         /\ r.pg = PageOf(LdObject(LdFields), SelKeys)
         /\ sink[1].title = LdValue("title")
         /\ sink[1].salary = LdValue("salary")
         /\ sink[1].is_remote = Null

NotRemote(p) == ~IncludesRemote(p)

\* The segments of a raw location: split on the six delimiters.
SixWaySegments(s) ==
    TrimmedNonEmpty(Split(RemoveAll(Trim(s), Brackets), SixDelimiters))

\* C9: normalizeLocation splits a non-empty raw location on middle dot,
\* bullet, pipe, slash, comma and hyphen; location and region are the segments
\* without "remote" joined by " / " (null when there is none), is_remote is
\* true and remote_type is the first segment with "remote" when there is one.
\* normalizeLocation of main.js does not split on middle dot and bullet.
C9_SplitsOnSixDelimiters ==
    (fnOut # NotCalled /\ fnIn.t = "string" /\ fnIn.s # <<>>) =>
        LET segs == SixWaySegments(fnIn.s)
            places == SelectSeq(segs, NotRemote)
            remotes == SelectSeq(segs, IncludesRemote)
            joined == IF places = <<>> THEN Null ELSE S(Join(places, <<" ", "/", " ">>))
        IN  /\ fnOut.location = joined
            /\ fnOut.region = joined
            /\ remotes # <<>> => /\ fnOut.is_remote = True
                                 /\ fnOut.remote_type = S(remotes[1])

\* C10: normalizeLocation returns a result with the four fields for every
\* argument, and all four are null for null, undefined and the empty string.
C10_NormalizeLocationTotal ==
    fnOut # NotCalled =>
        /\ DOMAIN fnOut = {"location", "is_remote", "remote_type", "region"}
        /\ fnIn \in {Null, Undefined, S(<<>>)} =>
             /\ fnOut.location = Null /\ fnOut.is_remote = Null
             /\ fnOut.remote_type = Null /\ fnOut.region = Null

C10_Witness ==
    /\ fnIn = Undefined
    /\ fnOut # NotCalled
    /\ fnOut.location = Null /\ fnOut.region = Null

-----------------------------------------------------------------------------
(* extractJobId on its own *)

MaxSegments == 3    \* path segments of an input URL

\* The paths of up to n segments.
RECURSIVE UrlPaths(_, _)
UrlPaths(segments, n) ==
    IF n = 0 THEN {<<>>}
    ELSE LET shorter == UrlPaths(segments, n - 1)
         IN  shorter \cup {p \o <<"/">> \o seg : p \in shorter, seg \in segments}

\* An input string starts with an origin (after a space or not), a text that
\* is no URL, or nothing (a relative path); a query or a fragment may follow
\* the path.
InitExtract ==
    LET heads == {<<"https://site.example">>, <<" ", "https://site.example">>,
                  <<"not a url">>, <<>>}
        segments == {<<>>, <<"jobs">>, <<"998877">>, <<"..">>, <<"a", " ", "b">>}
        suffixes == {<<>>, <<"?", "ref=", "/", "1">>, <<"#", "/", "apply">>}
    IN  /\ rev \in {"search"}
        /\ IdleRun("extractJobId")
        /\ fnIn \in {S(h \o p \o q) : h \in heads, p \in UrlPaths(segments, MaxSegments),
                                       q \in suffixes}
        /\ fnOut = NotCalled

CallExtractJobId ==
    /\ pc = "extractJobId" /\ fnOut = NotCalled
    /\ fnOut' = S(extractJobId(fnIn.s))
    /\ UNCHANGED <<rev, runVars, fnIn>>

NextExtract == CallExtractJobId

SpecExtract == InitExtract /\ [][NextExtract]_vars

\* The string parses as a URL: an origin, after optional spaces.
ParsesAsUrl(s) ==
    \E i \in 1..Len(s) :
        /\ s[i] \in Origins
        /\ \A j \in 1..(i - 1) : s[j] \in Whitespace

OnlySlashes(s) == \A i \in 1..Len(s) : s[i] = "/"

\* id is the last non-empty segment of the path.
IsLastSegment(id, path) ==
    /\ id # <<>>
    /\ \A i \in 1..Len(id) : id[i] # "/"
    /\ \E k \in 1..Len(path) :
         /\ path[k] = "/"
         /\ SubSeq(path, k + 1, k + Len(id)) = id
         /\ OnlySlashes(SubSeq(path, k + Len(id) + 1, Len(path)))

\* C11: extractJobId returns the last non-empty segment of the path of a
\* string that parses as a URL (the string itself when the path has no
\* segment), and the string unchanged when it does not parse.
C11_ExtractJobId ==
    fnOut # NotCalled =>
        IF ~ParsesAsUrl(fnIn.s) THEN fnOut = fnIn
        ELSE IF OnlySlashes(Pathname(fnIn.s)) THEN fnOut = fnIn
        ELSE /\ fnOut.t = "string"
             /\ IsLastSegment(fnOut.s, Pathname(fnIn.s))

C11_Witness ==
    /\ fnIn = S(<<"https://site.example", "/", "jobs", "/", "998877">>)
    /\ fnOut = S(<<"998877">>)

-----------------------------------------------------------------------------
(* cleanText on its own *)

MaxHtmlLen == 4     \* tokens of an HTML argument

cleanTextOf(r, html) == IF r = "first" THEN cleanTextFirst(html) ELSE cleanText(html)

\* The revisions of cleanText: the first revision of main.js, and the one
\* that main.js:778, part_001 and part_002 share.
InitCleanText ==
    /\ rev \in {"first", "search"}
    /\ IdleRun("cleanText")
    /\ fnIn \in {Null, Undefined}
                \cup {S(h) : h \in SeqUpTo({" ", "nl", "<p>", "a"}, MaxHtmlLen)}
    /\ fnOut = NotCalled

CallCleanText ==
    /\ pc = "cleanText" /\ fnOut = NotCalled
    /\ fnOut' = cleanTextOf(rev, fnIn)
    /\ UNCHANGED <<rev, runVars, fnIn>>

NextCleanText == CallCleanText

SpecCleanText == InitCleanText /\ [][NextCleanText]_vars

\* A non-empty string without whitespace at either end and without two
\* whitespace characters in a row.
CleanString(v) ==
    /\ v.t = "string" /\ v.s # <<>>
    /\ v.s[1] \notin Whitespace /\ v.s[Len(v.s)] \notin Whitespace
    /\ \A i \in 1..(Len(v.s) - 1) :
         ~(v.s[i] \in Whitespace /\ v.s[i + 1] \in Whitespace)

\* C12: cleanText returns null or a non-empty string without leading or
\* trailing whitespace and without a run of two whitespace characters, and
\* null for an empty or absent argument.  cleanText of the first revision
\* returns the empty string where the others return null.
C12_CleanTextNullOrClean ==
    fnOut # NotCalled =>
        /\ fnOut = Null \/ CleanString(fnOut)
        /\ fnIn \in {Null, Undefined, S(<<>>)} => fnOut = Null

\* The URLs handed to the detail phase.
CandidateSet ==
    IF rev = "crawl" THEN {r.url : r \in {q \in reqs : q.label = "DETAIL"}}
    ELSE Range(detailUrls)

\* C13: when collectDetails is false no detail page is fetched, and the run
\* ends with exactly one record per candidate URL, holding its job_id and url
\* only, at most results_wanted records.  part_001 and part_002 do not read
\* collectDetails and fetch the detail pages all the same.
C13_BareRecordsOnly ==
    ~cfg.collectDetails =>
        /\ \A r \in reqs : r.label = "DETAIL" => (r.st = "PENDING" /\ r.retries = 0)
        /\ pc = "done" =>
             /\ Len(sink) = Cardinality(CandidateSet)
             /\ Len(sink) <= cfg.RESULTS_WANTED
             /\ \A u \in CandidateSet :
                  /\ Cardinality(RecordsOf(u)) = 1
                  /\ \A i \in RecordsOf(u) :
                       sink[i] = [job_id |-> S(extractJobId(u)), url |-> S(u)]

\* C14: when startUrl is a job-detail URL, discovery counts it from the
\* start, the run never takes the empty exit, and the candidate list starts
\* with that URL and stays within results_wanted, whatever the search API
\* answers.
C14_SeedIsKept ==
    (rev = "search" /\ IsDetailUrl(cfg.startUrl)) =>
        /\ CollectedSize >= 1
        /\ Started =>
             /\ detailUrls # <<>>
             /\ detailUrls[1] = cfg.startUrl
             /\ Len(detailUrls) <= cfg.RESULTS_WANTED

C14_Witness ==
    /\ rev = "search" /\ pc = "done" /\ stopped = "error"
    /\ cfg.startUrl = WwwDetailUrl(1)
    /\ detailUrls[1] = WwwDetailUrl(1)
    /\ \E i \in 1..Len(sink) : sink[i].url = S(WwwDetailUrl(1))

-----------------------------------------------------------------------------
(* The clamps of results_wanted and max_pages *)

MaxRawNumber == 3   \* numeric inputs range over -1..MaxRawNumber

NaN == [t |-> "NaN"]
Infinity == [t |-> "Infinity"]
MAX_SAFE_INTEGER == [t |-> "MAX_SAFE_INTEGER"]

\* A token that is a decimal digit.
IsDigit(d) == \E n \in 0..9 : Decimal(n) = d
DigitValue(d) == CHOOSE n \in 0..9 : Decimal(n) = d

\* Number(v), and +v
ToNumber(v) ==
    CASE v.t = "number" -> v
      [] v.t = "null" -> Num(0)
      [] v.t = "boolean" -> Num(IF v.b THEN 1 ELSE 0)
      [] v.t = "Infinity" -> v
      [] v.t = "string" ->
            LET t == Trim(v.s)
            IN  IF t = <<>> THEN Num(0)
                ELSE IF Len(t) = 1 /\ IsDigit(t[1]) THEN Num(DigitValue(t[1]))
                ELSE IF Len(t) = 2 /\ t[1] = "-" /\ IsDigit(t[2])
                     THEN Num(0 - DigitValue(t[2]))
                ELSE NaN
      [] OTHER -> NaN

\* Number.isFinite(n)
IsFinite(n) == n.t = "number"

\* Number.isFinite(Number(raw)) ? Math.max(1, Number(raw)) : fallback
Clamp(raw, fallback) ==
    LET n == ToNumber(raw)
    IN  IF IsFinite(n) THEN Num(IF n.n > 1 THEN n.n ELSE 1) ELSE fallback

\* The default of a destructured input: taken when the input is undefined.
WithDefault(raw, default) == IF raw = Undefined THEN default ELSE raw

\* The default of max_pages, which is also its fallback.
DefaultPages(r) ==
    CASE r = "first" -> Num(999)
      [] r = "search" -> Num(20)
      [] OTHER -> Num(50)

\* The fallback of results_wanted when it is not a finite number.
FallbackWanted(r) == IF r = "first" THEN MAX_SAFE_INTEGER ELSE Num(100)

\* const RESULTS_WANTED = ...; const MAX_PAGES = ...
EffectiveInputs(r, input) ==
    [RESULTS_WANTED |-> Clamp(WithDefault(input.results_wanted, Num(100)),
                              FallbackWanted(r)),
     MAX_PAGES |-> Clamp(WithDefault(input.max_pages, DefaultPages(r)),
                         DefaultPages(r))]

InitClamp ==
    LET raw == {Undefined, Null, True, NaN, Infinity,
                S(<<>>), S(<<" ">>), S(<<"abc">>), S(<<" ", "2">>), S(<<"-", "1">>)}
               \cup {Num(n) : n \in -1..MaxRawNumber}
    IN  /\ rev \in {"first", "search", "listing", "crawl"}
        /\ IdleRun("clamp")
        /\ fnIn \in [results_wanted : raw, max_pages : raw]
        /\ fnOut = NotCalled

CallClamp ==
    /\ pc = "clamp" /\ fnOut = NotCalled
    /\ fnOut' = EffectiveInputs(rev, fnIn)
    /\ UNCHANGED <<rev, runVars, fnIn>>

NextClamp == CallClamp

SpecClamp == InitClamp /\ [][NextClamp]_vars

\* A number greater than or equal to 1.
AtLeastOne(v) == v = MAX_SAFE_INTEGER \/ (v.t = "number" /\ v.n >= 1)

\* Absent, or neither a number nor a text JavaScript reads as a number.
AbsentOrNotNumeric(v) ==
    \/ v \in {Undefined, NaN}
    \/ v.t = "string" /\ Trim(v.s) # <<>> /\ \E i \in 1..Len(v.s) :
           v.s[i] \notin Whitespace /\ v.s[i] # "-" /\ ~IsDigit(v.s[i])

\* C15: the effective quota and the effective page cap are numbers greater
\* than or equal to 1, and the quota is 100 when results_wanted is absent or
\* not numeric.  The first revision falls back to Number.MAX_SAFE_INTEGER.
C15_ClampedInputs ==
    fnOut # NotCalled =>
        /\ AtLeastOne(fnOut.RESULTS_WANTED)
        /\ AtLeastOne(fnOut.MAX_PAGES)
        /\ AbsentOrNotNumeric(fnIn.results_wanted) => fnOut.RESULTS_WANTED = Num(100)

-----------------------------------------------------------------------------
(* The detail phase on one candidate URL, with the category input *)

\* The programs with a detail handler, the second revision of main.js
\* (lines 208-738) among them, after discovery ended with one candidate: the
\* search loop has collected job 1, the listing loop one link, and the LIST
\* request of the crawl program and of the second revision has been handled.
InitCategory ==
    /\ rev \in Revs \cup {"second"}
    /\ cfg \in [RESULTS_WANTED : {1}, MAX_PAGES : {1}, dedupe : {TRUE},
                collectDetails : {TRUE}, startUrl : {<<>>},
                category : {S(<<>>), S(<<"engineering">>), S(<<"design">>)}]
    /\ \E u \in HandlerUrls :
         LET listUrl == IF cfg.category.s = <<>> THEN BaseListingUrl
                        ELSE BaseListingUrl \o <<"?", "category=">> \o cfg.category.s
         IN  /\ rev = "search" => u = DetailUrlOf(Num(1))
             /\ detailUrls = IF rev \in {"search", "listing"} THEN <<u>> ELSE <<>>
             /\ jobIds = IF rev = "search" THEN <<Num(1)>> ELSE <<>>
             /\ jobLinks = IF rev = "listing" THEN <<u>> ELSE <<>>
             /\ reqs = {DetailRequest(u)} \cup
                       (IF rev \in {"crawl", "second"}
                        THEN {[ListRequest(listUrl, 1) EXCEPT !.st = "HANDLED"]}
                        ELSE {})
    /\ pc = "crawling"
    /\ page = 1 /\ pagesFetched = 1 /\ firstGain = 1
    /\ stopped = IF rev \in {"crawl", "second"} THEN "" ELSE "quota"
    /\ seedDetailUrls = <<>>
    /\ saved = 0
    /\ sink = <<>>
    /\ fnIn = NotCalled
    /\ fnOut = NotCalled

\* The detail handler on the pages of the runs and on pages whose date
\* element is no <time> but carries a datetime attribute.
DetailStartCategory ==
    DetailStartOn(RunPages \cup
        {[PageOf(ld, found) EXCEPT !.dateIsTime = FALSE] :
            ld \in {Null, LdObject({"title"})},
            found \in {{"dateAttr"}, {"dateAttr", "dateText"}}})

NextCategory == FetchFails \/ DetailStartCategory \/ DetailFinish \/ CrawlerDone

SpecCategory == InitCategory /\ [][NextCategory]_vars

\* C16: no record of the sink has a category field, whatever the category
\* input is.  The item of the second revision has one.
C16_NoCategoryOnRecords ==
    \A i \in 1..Len(sink) : "category" \notin DOMAIN sink[i]

-----------------------------------------------------------------------------
(* Containment of a failure on one detail page *)

\* A request that met no failure of its own.
Unharmed(r) == r.label = "DETAIL" /\ r.retries = 0 /\ r.st \notin {"FAILED", "NO_DOM"}

\* At the end of the run every request that met no failure has been handled:
\* it has its one record, or it was skipped on a quota already met.
OthersProcessed ==
    pc = "done" =>
        \A r \in reqs :
            Unharmed(r) =>
                \/ r.st = "EXTRACTED" /\ Cardinality(RecordsOf(r.url)) = 1
                \/ r.st = "SKIPPED" /\ saved >= cfg.RESULTS_WANTED

\* While the crawler runs it has work it can do, whatever failed before: a
\* handler in flight or a pending request it can start, until every request
\* is settled.
NeverStuck ==
    pc = "crawling" =>
        \/ \A r \in reqs : r.st \in Terminal
        \/ \E r \in reqs : r \in InFlight \/ CanStart(r)

\* C17: a failure on one detail page is contained: the run is never stuck
\* before its end, a request is given up after maxRequestRetries retries, and
\* at the end the detail URLs that met no failure have been handled and have
\* their record while the quota was unmet.
C17_FailureContained ==
    /\ NeverStuck
    /\ \A r \in reqs : r.retries <= maxRequestRetries
    /\ OthersProcessed

C17_Witness ==
    /\ pc = "done"
    /\ \E r \in reqs : r.st = "FAILED"
    /\ \E r \in reqs : r.st = "EXTRACTED" /\ Cardinality(RecordsOf(r.url)) = 1

-----------------------------------------------------------------------------
(* The filters taken from startUrl (main.js, lines 924 to 936), on its own *)

MaxParams == 2

\* u.hostname of an absolute URL.
Hostname(url) ==
    LET o == Head(UrlInput(url))
    IN  CASE o = "https://powertofly.com" -> <<"powertofly.com">>
          [] o = "https://www.powertofly.com" -> <<"www.", "powertofly.com">>
          [] OTHER -> <<"site.example">>

\* The index of the first token of the class at or after i, or Len + 1.
RECURSIVE IndexFrom(_, _, _)
IndexFrom(s, class, i) ==
    IF i > Len(s) \/ s[i] \in class THEN i ELSE IndexFrom(s, class, i + 1)

\* u.search without its "?": what stands between the first "?" and the "#".
QueryOf(url) ==
    LET u == UrlInput(url)
        q == QueryStart(u, 2)
    IN  IF q > Len(u) \/ u[q] = "#" THEN <<>>
        ELSE SubSeq(u, q + 1, IndexFrom(u, {"#"}, q + 1) - 1)

\* The decoding of a query component: "+" and "%20" stand for a space.
RECURSIVE DecodeQuery(_)
DecodeQuery(s) ==
    IF s = <<>> THEN <<>>
    ELSE <<IF Head(s) \in {"+", "%20"} THEN " " ELSE Head(s)>> \o DecodeQuery(Tail(s))

\* The value of the first pair named `name` among the pieces, or null.
RECURSIVE FirstPair(_, _)
FirstPair(pieces, name) ==
    IF pieces = <<>> THEN Null
    ELSE LET piece == Head(pieces)
             eq == IndexFrom(piece, {"="}, 1)
         IN  IF piece # <<>> /\ DecodeQuery(SubSeq(piece, 1, eq - 1)) = name
             THEN S(DecodeQuery(SubSeq(piece, eq + 1, Len(piece))))
             ELSE FirstPair(Tail(pieces), name)

\* u.searchParams.get(name)
SearchParamsGet(url, name) == FirstPair(Split(QueryOf(url), {"&"}), name)

\* The filters with those of the URL taken first, the input's only when the
\* URL has none.
applyStartUrlFiltersUrlFirst(startUrl, keyword, location, category) ==
    IF Truthy(startUrl) /\ ~IsDetailUrl(startUrl.s) /\ IsAbsoluteUrl(startUrl.s)
       /\ Contains(Hostname(startUrl.s), <<"powertofly.com">>)
       /\ Contains(Pathname(startUrl.s), <<"/", "jobs">>)
    THEN [keyword |-> Or(Or(SearchParamsGet(startUrl.s, <<"keywords">>), keyword), S(<<>>)),
          location |-> Or(Or(SearchParamsGet(startUrl.s, <<"location">>), location), S(<<>>)),
          category |-> Or(Or(SearchParamsGet(startUrl.s, <<"category">>), category), S(<<>>))]
    ELSE [keyword |-> keyword, location |-> location, category |-> category]

\* if (startUrl && !/\/jobs\/detail\//i.test(startUrl)) { try { ... } catch {} }
\* new URL throws on a string that is not an absolute URL, and the catch
\* leaves the filters as they were.
applyStartUrlFilters(startUrl, keyword, location, category) ==
    IF Truthy(startUrl) /\ ~IsDetailUrl(startUrl.s) /\ IsAbsoluteUrl(startUrl.s)
       /\ Contains(Hostname(startUrl.s), <<"powertofly.com">>)
       /\ Contains(Pathname(startUrl.s), <<"/", "jobs">>)
    THEN [keyword |-> Or(Or(keyword, SearchParamsGet(startUrl.s, <<"keywords">>)), S(<<>>)),
          location |-> Or(Or(location, SearchParamsGet(startUrl.s, <<"location">>)), S(<<>>)),
          category |-> Or(Or(category, SearchParamsGet(startUrl.s, <<"category">>)), S(<<>>))]
    ELSE [keyword |-> keyword, location |-> location, category |-> category]

\* The start URLs tried: absolute or not, listing, detail or other path,
\* with up to MaxParams query pairs and an optional fragment.
InitFilters ==
    LET heads == {<<"https://powertofly.com">>, <<"https://www.powertofly.com">>,
                  <<"https://site.example">>, <<"not a url">>,
                  <<" ", "https://powertofly.com">>}
        paths == {<<>>, <<"/", "jobs", "/">>, <<"/", "jobs">>, <<"/", "about">>,
                  <<"/", "jobs", "/", "detail", "/", "a-1">>}
        pairs == {<<"keywords", "=", "python">>, <<"keywords", "=">>,
                  <<"keywords", "=", "go", "+", "dev">>, <<"location", "=", "Paris">>,
                  <<"category", "=", "design">>, <<"page", "=", "2">>}
        queries == {IF ps = <<>> THEN <<>> ELSE <<"?">> \o Join(ps, <<"&">>) :
                        ps \in SeqUpTo(pairs, MaxParams)}
        urls == {S(<<>>)} \cup
                {S(h \o p \o q \o f) : h \in heads, p \in paths, q \in queries,
                                       f \in {<<>>, <<"#", "location", "=", "Oslo">>}}
    IN  /\ rev \in {"search"}
        /\ IdleRun("applyStartUrlFilters")
        /\ fnIn \in [startUrl : urls, keyword : {S(<<>>), S(<<"rust">>), Null},
                     location : {S(<<>>), S(<<"Remote">>)},
                     category : {S(<<>>), S(<<"sales">>)}]
        /\ fnOut = NotCalled

CallApplyStartUrlFilters ==
    /\ pc = "applyStartUrlFilters" /\ fnOut = NotCalled
    /\ fnOut' = applyStartUrlFilters(fnIn.startUrl, fnIn.keyword, fnIn.location,
                                     fnIn.category)
    /\ UNCHANGED <<rev, runVars, fnIn>>

NextFilters == CallApplyStartUrlFilters

SpecFilters == InitFilters /\ [][NextFilters]_vars

\* A listing URL: an absolute URL of the site whose path holds /jobs and
\* which is not a detail URL.
IsListingUrl(s) ==
    /\ ParsesAsUrl(s)
    /\ \E i \in 1..Len(s) : s[i] \in {"https://powertofly.com", "https://www.powertofly.com"}
    /\ \E i \in 1..(Len(s) - 1) :
          /\ s[i] = "/" /\ s[i + 1] = "jobs"
          /\ \A j \in 1..i : s[j] \notin {"?", "#"}
    /\ ~Contains(s, <<"/", "jobs", "/", "detail", "/">>)

\* The filter a listing URL gives: the input's value when it is set, else the
\* URL's parameter, else the empty string.
FilterFrom(inputValue, url, name) ==
    IF Truthy(inputValue) THEN inputValue
    ELSE IF Truthy(SearchParamsGet(url, name)) THEN SearchParamsGet(url, name)
    ELSE S(<<>>)

\* C18: with a listing startUrl each filter is the input's when the input sets
\* it, else the URL's keywords, location or category parameter; with a detail
\* URL or a malformed one the three filters are the input's, unchanged.
C18_FiltersFromStartUrl ==
    fnOut # NotCalled /\ pc = "applyStartUrlFilters" =>
        IF IsListingUrl(fnIn.startUrl.s)
        THEN /\ fnOut.keyword = FilterFrom(fnIn.keyword, fnIn.startUrl.s, <<"keywords">>)
             /\ fnOut.location = FilterFrom(fnIn.location, fnIn.startUrl.s, <<"location">>)
             /\ fnOut.category = FilterFrom(fnIn.category, fnIn.startUrl.s, <<"category">>)
        ELSE /\ fnOut.keyword = fnIn.keyword
             /\ fnOut.location = fnIn.location
             /\ fnOut.category = fnIn.category

C18_Witness ==
    /\ pc = "applyStartUrlFilters" /\ fnOut # NotCalled
    /\ IsListingUrl(fnIn.startUrl.s)
    /\ fnIn.keyword = S(<<"rust">>) /\ fnOut.keyword = S(<<"rust">>)
    /\ SearchParamsGet(fnIn.startUrl.s, <<"keywords">>) = S(<<"python">>)
    /\ fnIn.location = S(<<>>) /\ fnOut.location = S(<<"Paris">>)

-----------------------------------------------------------------------------
(* buildCookieHeader (main.js, lines 753 to 776), on its own *)

MaxCookies == 2

SyntaxError == [t |-> "SyntaxError"]

\* The JSON texts of one token and the values they stand for.
JsonLiteral(tok) ==
    CASE tok = "null" -> Null
      [] tok = "5" -> Num(5)
      [] tok = "{\"name\":\"sid\",\"value\":\"1\"}" ->
            Obj(<< <<"name", S(<<"sid">>)>>, <<"value", S(<<"1">>)>> >>)
      [] tok = "{\"name\":\"tok\",\"value\":\"\"}" ->
            Obj(<< <<"name", S(<<"tok">>)>>, <<"value", S(<<>>)>> >>)
      [] tok = "{\"name\":\"\",\"value\":\"x\"}" ->
            Obj(<< <<"name", S(<<>>)>>, <<"value", S(<<"x">>)>> >>)
      [] tok = "{\"domain\":\"powertofly.com\"}" ->
            Obj(<< <<"domain", S(<<"powertofly.com">>)>> >>)
      [] OTHER -> SyntaxError

\* The values of the comma-separated pieces of an array text, or a
\* SyntaxError when a piece is not one JSON text.
RECURSIVE JsonElements(_)
JsonElements(pieces) ==
    IF pieces = <<>> THEN Arr(<<>>)
    ELSE LET piece == Trim(Head(pieces))
             rest == JsonElements(Tail(pieces))
         IN  IF Len(piece) # 1 \/ JsonLiteral(piece[1]) = SyntaxError
                \/ rest = SyntaxError
             THEN SyntaxError
             ELSE Arr(<<JsonLiteral(piece[1])>> \o rest.a)

\* JSON.parse(text): the value, or the SyntaxError it throws.
JsonParse(text) ==
    LET t == Trim(text)
    IN  IF Len(t) = 1 THEN JsonLiteral(t[1])
        ELSE IF Len(t) >= 2 /\ t[1] = "[" /\ t[Len(t)] = "]"
        THEN IF Trim(SubSeq(t, 2, Len(t) - 1)) = <<>> THEN Arr(<<>>)
             ELSE JsonElements(Split(SubSeq(t, 2, Len(t) - 1), {","}))
        ELSE SyntaxError

\* object[key], undefined when the key is absent or the value is no object.
RECURSIVE EntryOf(_, _)
EntryOf(entries, key) ==
    IF entries = <<>> THEN Undefined
    ELSE IF Head(entries)[1] = key THEN Head(entries)[2]
    ELSE EntryOf(Tail(entries), key)

Prop(v, key) == IF v.t = "object" THEN EntryOf(v.e, key) ELSE Undefined

\* parsed.forEach(({ name, value }) => { if (name && value) parts.push(...) })
\* Destructuring null throws a TypeError, which ends the loop in the catch
\* with the parts pushed so far.
RECURSIVE PushCookies(_, _)
PushCookies(list, parts) ==
    IF list = <<>> THEN parts
    ELSE IF Head(list).t \in {"null", "undefined"} THEN parts
    ELSE LET name == Prop(Head(list), "name")
             value == Prop(Head(list), "value")
         IN  PushCookies(Tail(list),
                         IF Truthy(name) /\ Truthy(value)
                         THEN Append(parts, ToStringJs(name) \o <<"=">> \o ToStringJs(value))
                         ELSE parts)

\* Object.entries(parsed).forEach(([k, v]) => { if (k && v) parts.push(...) })
RECURSIVE PushEntries(_, _)
PushEntries(entries, parts) ==
    IF entries = <<>> THEN parts
    ELSE LET k == Head(entries)[1]
             v == Head(entries)[2]
         IN  PushEntries(Tail(entries),
                         IF k # "" /\ Truthy(v)
                         THEN Append(parts, <<k, "=">> \o ToStringJs(v))
                         ELSE parts)

buildCookieHeader(cookies, cookiesJson) ==
    LET raw == IF Truthy(cookies) /\ cookies.t = "string"
               THEN <<Trim(cookies.s)>> ELSE <<>>
        parsed == IF cookiesJson.t = "string" THEN JsonParse(cookiesJson.s)
                  ELSE cookiesJson
        parts == IF ~Truthy(cookiesJson) THEN raw
                 ELSE IF parsed.t = "array" THEN PushCookies(parsed.a, raw)
                 ELSE IF parsed.t = "object" THEN PushEntries(parsed.e, raw)
                 ELSE raw
    IN  Or(S(Join(NonEmpty(parts), <<"; ">>)), Undefined)

\* The inputs tried: a raw cookie string that is absent, empty, blank, padded
\* or no string; a cookiesJson that is absent, empty, a JSON text (an array of
\* up to MaxCookies pieces, closed or not, or a single value), an array or
\* an object.
InitCookies ==
    LET tokens == {"null", "5", "{oops",
                   "{\"name\":\"sid\",\"value\":\"1\"}",
                   "{\"name\":\"tok\",\"value\":\"\"}",
                   "{\"name\":\"\",\"value\":\"x\"}",
                   "{\"domain\":\"powertofly.com\"}"}
        lists == SeqUpTo(tokens, MaxCookies)
        inner(l) == Join([i \in 1..Len(l) |-> <<l[i]>>], <<",">>)
        texts == {<<"[">> \o inner(l) \o <<"]">> : l \in lists}
                 \cup {<<"[">> \o inner(l) : l \in lists}
                 \cup {<<tok>> : tok \in tokens}
        values == {JsonLiteral(tok) : tok \in tokens \ {"{oops"}}
    IN  /\ rev \in {"search"}
        /\ IdleRun("buildCookieHeader")
        /\ fnIn \in [cookies : {Undefined, S(<<>>), S(<<" ">>), S(<<" ", "a=1", " ">>),
                                Num(5)},
                     cookiesJson : {Undefined, S(<<>>)} \cup {S(t) : t \in texts}
                                   \cup {Arr(l) : l \in SeqUpTo(values, MaxCookies)}
                                   \cup {JsonLiteral("{\"name\":\"sid\",\"value\":\"1\"}")}]
        /\ fnOut = NotCalled

CallBuildCookieHeader ==
    /\ pc = "buildCookieHeader" /\ fnOut = NotCalled
    /\ fnOut' = buildCookieHeader(fnIn.cookies, fnIn.cookiesJson)
    /\ UNCHANGED <<rev, runVars, fnIn>>

NextCookies == CallBuildCookieHeader

SpecCookies == InitCookies /\ [][NextCookies]_vars

\* The structured cookie list of the input: the array given, or the array its
\* JSON text stands for; empty when the text cannot be parsed.
CookieList(cookiesJson) ==
    IF cookiesJson.t = "array" THEN cookiesJson.a
    ELSE IF cookiesJson.t = "string" /\ cookiesJson.s # <<>>
            /\ JsonParse(cookiesJson.s).t = "array"
    THEN JsonParse(cookiesJson.s).a
    ELSE <<>>

\* name=value for every entry of the list with a non-empty name and value.
RECURSIVE NamedValues(_)
NamedValues(list) ==
    IF list = <<>> THEN <<>>
    ELSE LET name == Prop(Head(list), "name")
             value == Prop(Head(list), "value")
         IN  (IF Truthy(name) /\ Truthy(value)
              THEN <<ToStringJs(name) \o <<"=">> \o ToStringJs(value)>>
              ELSE <<>>) \o NamedValues(Tail(list))

\* The trimmed raw cookie string, when there is one.
RawCookie(cookies) ==
    IF cookies.t = "string" /\ Trim(cookies.s) # <<>> THEN <<Trim(cookies.s)>> ELSE <<>>

\* The input is a raw string with a cookie list (not the object form).
ListForm(cookiesJson) ==
    ~(cookiesJson.t = "object"
      \/ (cookiesJson.t = "string" /\ JsonParse(cookiesJson.s).t = "object"))

\* C19: the header is the trimmed raw cookie string, then name=value for every
\* entry of the structured list with a non-empty name and value, joined with
\* "; "; there is no header when nothing remains, and a cookiesJson that cannot
\* be parsed leaves the raw cookie string alone.
C19_CookieHeader ==
    fnOut # NotCalled /\ pc = "buildCookieHeader" /\ ListForm(fnIn.cookiesJson) =>
        LET parts == RawCookie(fnIn.cookies) \o NamedValues(CookieList(fnIn.cookiesJson))
        IN  fnOut = IF parts = <<>> THEN Undefined ELSE S(Join(parts, <<"; ">>))

-----------------------------------------------------------------------------
(* The quota test at the top of the detail handler *)

\* The step is the start of the detail handler on a pending request: the
\* request leaves the queue otherwise than by a failed fetch.
HandlerBegins ==
    \E r \in reqs :
        /\ r.label = "DETAIL" /\ r.st = "PENDING"
        /\ \E q \in reqs' : q.url = r.url /\ q.st \notin {"PENDING", "FAILED"}

\* C20: a detail handler that begins with the saved count at results_wanted
\* or above appends nothing to the sink and leaves the saved count unchanged.
C20_SkipsWhenQuotaMet ==
    [][HandlerBegins /\ saved >= cfg.RESULTS_WANTED
           => sink' = sink /\ saved' = saved]_vars

C20_Witness ==
    /\ saved >= cfg.RESULTS_WANTED
    /\ Len(sink) = saved
    /\ \E r \in reqs : r.label = "DETAIL" /\ r.st = "SKIPPED"

-----------------------------------------------------------------------------
(* The LIST handler of the first revision (main.js, lines 8 to 206) with
   collectDetails = false: the links of a page are pushed in one batch *)

MaxBatchWanted == 10    \* results_wanted ranges over 1..MaxBatchWanted
MaxStartUrls == 2       \* entries of startUrls

maxConcurrencyFirst == 10

\* if (saved < RESULTS_WANTED && pageNo < MAX_PAGES) { ... if (next) await
\* enqueueLinks(next) }: the handler of r waits at the await, or returns
\* when there is no page to enqueue.  rs holds the other requests.
BatchPaginate(rs, r, count, next) ==
    IF count < cfg.RESULTS_WANTED /\ r.pageNo < cfg.MAX_PAGES /\ next # <<>>
    THEN AddRequests(rs \cup {[r EXCEPT !.st = "PAGINATING"]},
                     {ListRequest(next, r.pageNo + 1)})
    ELSE rs \cup {[r EXCEPT !.st = "HANDLED"]}

\* The LIST handler up to its first await: `await Dataset.pushData(...)`
\* or, with nothing to push, `await enqueueLinks(next page)`; with neither
\* it returns.
BatchListStart ==
    /\ rev = "first" /\ pc = "crawling"
    /\ Cardinality(InFlight) < maxConcurrencyFirst
    /\ \E r \in {q \in reqs : q.st = "PENDING"},
          k \in {0, 1, cfg.RESULTS_WANTED},
          next \in {<<>>, ListUrl(2)} :
         LET \* findJobLinks on a page that holds k detail links
             links == [i \in 1..k |->
                          DETAIL_BASE \o <<Decimal(i \div 10), Decimal(i % 10)>>]
             remaining == cfg.RESULTS_WANTED - saved
             toPush == Slice(links, IF remaining > 0 THEN remaining ELSE 0)
             \* toPush.map(u => ({ url: u, _source: 'powertofly.com' }))
             items == [i \in 1..Len(toPush) |->
                          [url |-> S(toPush[i]), _source |-> S(<<"powertofly.com">>)]]
         IN  IF toPush # <<>>
             THEN /\ sink' = sink \o items
                  /\ reqs' = (reqs \ {r}) \cup
                         {[r EXCEPT !.st = "LISTED",
                                    !.pg = [pushed |-> Len(toPush)], !.next = next]}
             ELSE /\ sink' = sink
                  /\ reqs' = BatchPaginate(reqs \ {r}, r, saved, next)
    /\ pagesFetched' = pagesFetched + 1
    /\ UNCHANGED <<rev, cfg, pc, page, firstGain, stopped, jobIds, seedDetailUrls,
                   jobLinks, detailUrls, saved, fnVars>>

\* The LIST handler after the push: saved += toPush.length, then pagination
\* up to `await enqueueLinks(next page)`.
BatchListFinish ==
    /\ rev = "first" /\ pc = "crawling"
    /\ \E r \in {q \in reqs : q.st = "LISTED"} :
         /\ saved' = saved + r.pg.pushed
         /\ reqs' = BatchPaginate(reqs \ {r}, r, saved', r.next)
    /\ UNCHANGED <<rev, cfg, pc, page, pagesFetched, firstGain, stopped, jobIds,
                   seedDetailUrls, jobLinks, detailUrls, sink, fnVars>>

\* crawler.run(initial.map(u => ({ url: u, userData: { label: 'LIST', pageNo: 1 } })))
InitBatch ==
    LET starts == {BaseListingUrl} \cup
                  {BaseListingUrl \o <<"?", "keywords=", Decimal(i)>> :
                       i \in 2..MaxStartUrls}
    IN  /\ rev = "first"
        /\ cfg \in [RESULTS_WANTED : 1..MaxBatchWanted, MAX_PAGES : 1..MaxPageCap,
                    dedupe : {TRUE}, collectDetails : {FALSE}, startUrl : {<<>>}]
        /\ \E initial \in (SUBSET starts) \ {{}} :
              reqs = {ListRequest(u, 1) : u \in initial}
        /\ pc = "crawling"
        /\ page = 1 /\ pagesFetched = 0 /\ firstGain = -1 /\ stopped = ""
        /\ jobIds = <<>> /\ seedDetailUrls = <<>> /\ jobLinks = <<>>
        /\ detailUrls = <<>>
        /\ saved = 0
        /\ sink = <<>>
        /\ fnIn = NotCalled
        /\ fnOut = NotCalled

NextBatch ==
    \/ BatchListStart \/ BatchListFinish \/ ListReturn
    \/ FetchFails \/ CrawlerDone

SpecBatch == InitBatch /\ [][NextBatch]_vars

\* C21: whatever the interleaving of the handlers that read the saved count,
\* await the push and then add to the count, the sink holds at most
\* results_wanted + concurrency - 1 records.
C21_OvershootWithinConcurrency ==
    Len(sink) <= cfg.RESULTS_WANTED
                 + (IF rev = "first" THEN maxConcurrencyFirst ELSE maxConcurrency) - 1

-----------------------------------------------------------------------------
(* The end of listing pagination *)

\* The running set of links: jobLinks in the listing program, the detail
\* requests enqueued so far in the crawl program.
LinksCollected ==
    IF rev = "crawl" THEN Cardinality({r \in reqs : r.label = "DETAIL"})
    ELSE Len(jobLinks)

\* A listing page has been read that added no link: the loop left on
\* gained === 0, or a LIST request was handled while the set is still empty.
ZeroGainPage ==
    IF rev = "crawl"
    THEN /\ \E r \in reqs : r.label = "LIST" /\ r.st \in {"LISTED", "PAGINATING", "HANDLED"}
         /\ LinksCollected = 0
    ELSE stopped = "nogain"

ListPagesEnqueued == {r.url : r \in {q \in reqs : q.label = "LIST"}}

\* C22: after a listing page that added no new link, or once the running set
\* holds results_wanted links, no listing page is fetched or enqueued.
C22_ListingStopsEarly ==
    [][ZeroGainPage \/ LinksCollected >= cfg.RESULTS_WANTED
           => /\ pagesFetched' = pagesFetched
              /\ ListPagesEnqueued' = ListPagesEnqueued]_vars

-----------------------------------------------------------------------------
(* The crawl program started on the entries of startUrls *)

InitStarts ==
    LET starts == {BaseListingUrl} \cup
                  {BaseListingUrl \o <<"?", "keywords=", Decimal(i)>> :
                       i \in 2..MaxStartUrls}
    IN  /\ rev = "crawl"
        /\ cfg \in [RESULTS_WANTED : {1}, MAX_PAGES : {1}, dedupe : {TRUE},
                    collectDetails : {TRUE}, startUrl : {<<>>}]
        /\ \E initial \in (SUBSET starts) \ {{}} :
              reqs = {ListRequest(u, 1) : u \in initial}
        /\ pc = "crawling"
        /\ page = 1 /\ pagesFetched = 0 /\ firstGain = -1 /\ stopped = ""
        /\ jobIds = <<>> /\ seedDetailUrls = <<>> /\ jobLinks = <<>>
        /\ detailUrls = <<>>
        /\ saved = 0
        /\ sink = <<>>
        /\ fnIn = NotCalled
        /\ fnOut = NotCalled

\* With MAX_PAGES = 1 no next page is enqueued: no handler waits there.
NextStarts ==
    \/ ListStart \/ ListPaginate
    \/ FetchFails \/ DetailStart \/ DetailFinish \/ CrawlerDone

SpecStarts == InitStarts /\ [][NextStarts]_vars

\* C23: whatever the upstream answers, discovery fetches at most max_pages
\* listing or search pages in all.
C23_PagesWithinCap == pagesFetched <= cfg.MAX_PAGES

-----------------------------------------------------------------------------
(* The end of search pagination on pages without new ids *)

\* C24: search discovery ends for want of new ids only after two consecutive
\* pages that added none; one such page does not end it.
C24_TwoEmptyPagesEndSearch ==
    rev = "search" /\ stopped = "nogain" =>
        /\ pagesFetched >= 2
        /\ pagesFetched = 2 => firstGain = 0

-----------------------------------------------------------------------------
(* The discovery strategies of a run *)

\* The strategy has fetched a page in this run.  Each program holds the loop
\* of one strategy alone, and none reads a sitemap.
StrategyRan(strategy) ==
    /\ pagesFetched > 0
    /\ \/ strategy = "listing" /\ rev \in {"listing", "crawl"}
       \/ strategy = "search" /\ rev = "search"

\* Discovery is over: the main function is past the loop.
DiscoveryOver == pc \in {"collected", "crawling", "bare", "done"}

\* C25: the strategies run in the order listing, search API, sitemap: when
\* discovery is over with fewer candidates than results_wanted every strategy
\* has run, and a strategy has run only if the ones before it have.
C25_StrategiesInOrder ==
    rev \in {"search", "listing"} =>
        /\ DiscoveryOver /\ CollectedSize < cfg.RESULTS_WANTED =>
              \A strategy \in {"listing", "search", "sitemap"} : StrategyRan(strategy)
        /\ StrategyRan("search") => StrategyRan("listing")
        /\ StrategyRan("sitemap") => StrategyRan("search")

-----------------------------------------------------------------------------
(* The loop over the jobs of one search response (main.js, lines 980 to 983),
   on its own *)

InitAddJobs ==
    /\ rev \in {"search"}
    /\ IdleRun("addJobs")
    /\ fnIn \in [ids : {ids \in SeqUpTo({Num(i) : i \in Ids}, MaxIds) :
                           \A i, j \in 1..Len(ids) : ids[i] = ids[j] => i = j},
                 jobs : SeqUpTo(ApiJobs, MaxBatch),
                 dedupe : BOOLEAN]
    /\ fnOut = NotCalled

CallAddJobs ==
    /\ pc = "addJobs" /\ fnOut = NotCalled
    /\ fnOut' = Arr(AddJobs(fnIn.ids, fnIn.jobs, fnIn.dedupe))
    /\ UNCHANGED <<rev, runVars, fnIn>>

SpecAddJobs == InitAddJobs /\ [][CallAddJobs]_vars

\* The entries of a response that carry an id.
RECURSIVE WithId(_)
WithId(jobs) ==
    IF jobs = <<>> THEN <<>>
    ELSE (IF Head(jobs) # Null /\ Truthy(Head(jobs).id) THEN <<Head(jobs).id>> ELSE <<>>)
         \o WithId(Tail(jobs))

\* C26: with dedupe disabled every id of the response is appended, a repeated
\* one included, and the collected count grows by one for each; with dedupe
\* enabled a repeated id is not added.
C26_DedupeOffAppendsRepeats ==
    fnOut # NotCalled /\ pc = "addJobs" =>
        IF fnIn.dedupe
        THEN fnOut.a = Uniq(fnIn.ids \o WithId(fnIn.jobs))
        ELSE fnOut.a = fnIn.ids \o WithId(fnIn.jobs)

-----------------------------------------------------------------------------
(* Discovery before the detail phase *)

\* The candidates: the detail requests of the queue in the crawl program,
\* the list detailUrls in the others.
Candidates ==
    IF rev = "crawl" THEN {r.url : r \in {q \in reqs : q.label = "DETAIL"}}
    ELSE Range(detailUrls)

\* The crawler has taken up a detail request.
DetailDispatched ==
    \E r \in reqs : r.label = "DETAIL" /\ (r.st # "PENDING" \/ r.retries > 0)

\* No listing or search page is still to be read.
DiscoveryFinished ==
    IF rev = "crawl"
    THEN \A r \in reqs : r.label = "LIST" => r.st \in Terminal
    ELSE pc # "discover"

\* C27: no detail fetch starts before discovery has finished, and the
\* candidates do not change once a detail fetch has been dispatched.
C27_DiscoveryBeforeDetails ==
    [][DetailDispatched => DiscoveryFinished /\ Candidates' = Candidates]_vars

-----------------------------------------------------------------------------
(* The life of a detail request, with handler timeouts *)

\* requestHandlerTimeoutSecs: 30.  The timeout fires while the handler is
\* suspended at `await Dataset.pushData(item)`: the crawler counts the
\* attempt as failed and retries the request (up to maxRequestRetries
\* times).  Nothing cancels the handler: it stays behind, abandoned, with
\* its push on the way and its `saved += 1` still to run.
HandlerTimeout ==
    /\ pc = "crawling"
    /\ \E r \in reqs :
         /\ r.st = "FETCHED"
         /\ r \in Failing(reqs) \/ Cardinality(Failing(reqs)) < MaxFailing
         /\ reqs' = (reqs \ {r}) \cup
                {IF r.retries < maxRequestRetries
                 THEN [r EXCEPT !.retries = r.retries + 1, !.st = "PENDING",
                                !.pg = NoPage]
                 ELSE [r EXCEPT !.st = "FAILED"],
                 [r EXCEPT !.label = "ABANDONED", !.st = "ABANDONED"]}
    /\ UNCHANGED <<rev, cfg, pc, page, pagesFetched, firstGain, stopped, jobIds,
                   seedDetailUrls, jobLinks, detailUrls, saved, sink, fnVars>>

\* The push of an abandoned handler resolves and the handler runs
\* saved += 1; a handler started in between has read the old count, and
\* the run may have ended by then.
PushResolves ==
    /\ \E r \in reqs :
         /\ r.st = "ABANDONED"
         /\ reqs' = reqs \ {r}
    /\ saved' = Incremented(saved)
    /\ UNCHANGED <<rev, cfg, pc, page, pagesFetched, firstGain, stopped, jobIds,
                   seedDetailUrls, jobLinks, detailUrls, sink, fnVars>>

NextTimeouts == NextSearch \/ HandlerTimeout \/ PushResolves

SpecTimeouts == InitSearch /\ [][NextTimeouts]_vars

\* PENDING, then in the handler, then a final outcome.
Phase(st) ==
    CASE st = "PENDING" -> 0
      [] st \in {"FETCHED", "LISTED", "PAGINATING"} -> 1
      [] OTHER -> 2

\* C28: a detail request goes from PENDING to FETCHED to a final outcome,
\* never backwards and never out of a final outcome, and the sink holds at
\* most one record of its URL, whatever fails or times out.
C28_DetailLifecycle ==
    [][\A r \in {q \in reqs : q.label = "DETAIL"} :
          /\ \E q \in reqs' :
                /\ q.url = r.url
                /\ Phase(q.st) >= Phase(r.st)
                /\ r.st \in Terminal => q.st = r.st
          /\ Cardinality({i \in 1..Len(sink') : sink'[i].url = S(r.url)}) <= 1]_vars

-----------------------------------------------------------------------------
(* Bounded retries *)

\* The failed attempts of a request so far.
FailedAttempts(r) == IF r.st = "FAILED" THEN r.retries + 1 ELSE r.retries

\* C29: a detail URL whose fetches keep failing is attempted at most
\* 1 + maxRequestRetries times, is then given up for good, and the run ends
\* only with every such URL given up or handled.
C29_BoundedAttempts ==
    \A r \in {q \in reqs : q.label = "DETAIL"} :
        /\ FailedAttempts(r) <= 1 + maxRequestRetries
        /\ r.st = "FAILED" => FailedAttempts(r) = 1 + maxRequestRetries
        /\ pc = "done" => r.st \in Terminal

\* The run has ended with a detail URL given up after its last retry.
C29_Witness ==
    /\ pc = "done"
    /\ \E r \in reqs :
          r.label = "DETAIL" /\ r.st = "FAILED" /\ r.retries = maxRequestRetries

-----------------------------------------------------------------------------
(* Block pages served to the detail handler *)

\* A denial page served with status 200: no JobPosting, and a heading that
\* reads "Access denied".
BlockedPage == [PageOf(Null, {}) EXCEPT !.title = S(<<"Access denied">>)]

DetailStartBlockable == DetailStartOn(RunPages \cup {BlockedPage})

NextBlocked ==
    \/ SearchPage \/ LoopEnd \/ ExitEmpty \/ StartDetails \/ PushBare
    \/ FetchFails \/ DetailStartBlockable \/ DetailFinish \/ CrawlerDone

SpecBlocked == InitSearch /\ [][NextBlocked]_vars

\* C30: a detail response that is a block page gives no record made from
\* its body; the request is not taken as handled with that page.
C30_BlockPageNotRecorded ==
    /\ \A i \in 1..Len(sink) :
          "title" \in DOMAIN sink[i] => sink[i].title # S(<<"Access denied">>)
    /\ \A r \in reqs : r.pg = BlockedPage => r.st \notin {"FETCHED", "EXTRACTED"}

-----------------------------------------------------------------------------
(* parseJsonLd: the JobPosting of the page's JSON-LD blocks *)

MaxBlocks == 2      \* script[type="application/ld+json"] elements of a page

\* x.trim() on a value that is no string.
TypeError == [t |-> "TypeError"]

\* raw: the blocks that parse, an array block spread into its elements.
RECURSIVE RawObjects(_)
RawObjects(blocks) ==
    IF blocks = <<>> THEN <<>>
    ELSE LET json == Head(blocks)
         IN  (IF json = SyntaxError THEN <<>>
              ELSE IF json.t = "array" THEN json.a
              ELSE <<json>>) \o RawObjects(Tail(blocks))

\* raw.flatMap((o) => (o && o['@graph'] ? o['@graph'] : [o]))
RECURSIVE Flatten(_)
Flatten(raw) ==
    IF raw = <<>> THEN <<>>
    ELSE LET o == Head(raw)
             graph == Prop(o, "@graph")
         IN  (IF Truthy(o) /\ Truthy(graph)
              THEN (IF graph.t = "array" THEN graph.a ELSE <<graph>>)
              ELSE <<o>>) \o Flatten(Tail(raw))

\* The test of flattened.find(...)
IsJobPosting(o) ==
    LET t == Prop(o, "@type")
    IN  /\ Truthy(o) /\ Truthy(t)
        /\ IF t.t = "array"
           THEN \E i \in 1..Len(t.a) : t.a[i] = S(<<"JobPosting">>)
           ELSE t = S(<<"JobPosting">>)

\* The test with "the last match" in place of "the first".
FindJobLast(flattened) ==
    IF \E i \in 1..Len(flattened) : IsJobPosting(flattened[i])
    THEN flattened[CHOOSE i \in 1..Len(flattened) :
                      /\ IsJobPosting(flattened[i])
                      /\ \A j \in (i + 1)..Len(flattened) : ~IsJobPosting(flattened[j])]
    ELSE Undefined

\* flattened.find(...): the first match, undefined when there is none.
FindJob(flattened) ==
    IF \E i \in 1..Len(flattened) : IsJobPosting(flattened[i])
    THEN flattened[CHOOSE i \in 1..Len(flattened) :
                      /\ IsJobPosting(flattened[i])
                      /\ \A j \in 1..(i - 1) : ~IsJobPosting(flattened[j])]
    ELSE Undefined

\* array.filter(Boolean)
RECURSIVE FilterBoolean(_)
FilterBoolean(a) ==
    IF a = <<>> THEN <<>>
    ELSE (IF Truthy(Head(a)) THEN <<Head(a)>> ELSE <<>>) \o FilterBoolean(Tail(a))

\* data.location: the parts of the first jobLocation's address joined by
\* ", ".  The crawl program filters first and calls trim() on each part
\* left, which throws on a part that is no string.
LdLocation(r, job) ==
    LET jl == Prop(job, "jobLocation")
        loc == IF jl.t = "array"
               THEN (IF jl.a = <<>> THEN Undefined ELSE jl.a[1])
               ELSE jl
        addr == Prop(loc, "address")
        given == <<Or(Prop(addr, "addressLocality"), S(<<>>)),
                   Or(Prop(addr, "addressRegion"), S(<<>>)),
                   Or(Prop(addr, "addressCountry"), S(<<>>))>>
        kept == FilterBoolean(given)
        parts == IF r = "crawl"
                 THEN [i \in 1..Len(kept) |-> Trim(kept[i].s)]
                 ELSE LET trimmed == [i \in 1..3 |-> S(Trim(ToStringJs(given[i])))]
                          left == FilterBoolean(trimmed)
                      IN  [i \in 1..Len(left) |-> left[i].s]
    IN  IF ~(Truthy(jl) /\ Truthy(loc) /\ Truthy(addr)) THEN Undefined
        ELSE IF r = "crawl" /\ \E i \in 1..Len(kept) : kept[i].t # "string"
        THEN TypeError
        ELSE IF parts = <<>> THEN Undefined
        ELSE S(Join(parts, <<",", " ">>))

\* data.date_posted: String(job.datePosted).trim(); job.datePosted.trim() in
\* the crawl program.
LdDatePosted(r, job) ==
    LET d == Prop(job, "datePosted")
    IN  IF ~Truthy(d) THEN Undefined
        ELSE IF r = "crawl" /\ d.t # "string" THEN TypeError
        ELSE S(Trim(ToStringJs(d)))

\* data.job_type
LdJobType(r, job) ==
    LET e == Prop(job, "employmentType")
    IN  IF ~Truthy(e) THEN Undefined
        ELSE IF e.t = "array"
        THEN S(Join([i \in 1..Len(e.a) |-> ToStringJs(e.a[i])], <<",", " ">>))
        ELSE IF r = "crawl" THEN e
        ELSE S(Trim(ToStringJs(e)))

\* data.salary: amount, currency and unit, the ones given, joined by " ".
LdSalary(job) ==
    LET s == Prop(job, "baseSalary")
        v == Or(Prop(s, "value"), Obj(<<>>))
        amount == Or(Or(Prop(v, "value"), Prop(v, "minValue")), Null)
        currency == Or(Or(Prop(s, "currency"), Prop(v, "currency")), Null)
        unit == Or(Or(Prop(s, "@type"), Prop(v, "@type")), Null)
        kept == FilterBoolean(<<amount, currency, unit>>)
    IN  IF ~Truthy(s) THEN Undefined
        ELSE S(Join([i \in 1..Len(kept) |-> ToStringJs(kept[i])], <<" ">>))

\* parseJsonLd($) on the parsed blocks of a page (SyntaxError for a block
\* JSON.parse rejects): null, the data, or the TypeError it throws.
parseJsonLd(r, blocks) ==
    LET job == FindJob(Flatten(RawObjects(blocks)))
        LdString(x) == IF Truthy(x) THEN S(Trim(ToStringJs(x))) ELSE Undefined
        data == [f \in LdFields |->
                   CASE f = "title" -> LdString(Prop(job, "title"))
                     [] f = "description_html" -> LdString(Prop(job, "description"))
                     [] f = "company" ->
                            LdString(Prop(Prop(job, "hiringOrganization"), "name"))
                     [] f = "location" -> LdLocation(r, job)
                     [] f = "date_posted" -> LdDatePosted(r, job)
                     [] f = "job_type" -> LdJobType(r, job)
                     [] OTHER -> LdSalary(job)]
    IN  IF ~Truthy(job) THEN Null
        ELSE IF \E f \in LdFields : data[f] = TypeError THEN TypeError
        ELSE data

\* Pages with one block in every shape of a JobPosting, and pages with
\* MaxBlocks blocks of which some do not parse or hold no JobPosting.
InitJsonLd ==
    LET str(x) == S(<<x>>)
        address(parts) == Obj(<<<<"address", Obj(parts)>>>>)
        types == {str("JobPosting"), Arr(<<str("Thing"), str("JobPosting")>>)}
        dates == {<<>>, <<<<"datePosted", S(<<"2025-11-28", " ">>)>>>>,
                  <<<<"datePosted", Num(5)>>>>}
        places == {<<>>, <<<<"jobLocation", Arr(<<>>)>>>>,
                   <<<<"jobLocation", Obj(<<<<"address", Null>>>>)>>>>,
                   <<<<"jobLocation",
                       Arr(<<address(<<<<"addressLocality", S(<<" ", "Austin">>)>>,
                                       <<"addressCountry", str("US")>>>>)>>)>>>>,
                   <<<<"jobLocation",
                       address(<<<<"addressLocality", str("Austin")>>,
                                 <<"addressRegion", Num(5)>>>>)>>>>}
        salaries == {<<>>, <<<<"baseSalary", Num(5)>>>>,
                     <<<<"baseSalary",
                         Obj(<<<<"@type", str("MonetaryAmount")>>,
                               <<"currency", str("USD")>>,
                               <<"value", Obj(<<<<"value", Num(9)>>>>)>>>>)>>>>}
        job(title, type, rest) ==
            Obj(<<<<"@type", type>>, <<"title", str(title)>>>> \o rest)
        shapes == {job("A", t, d \o p \o s) :
                      t \in types, d \in dates, p \in places, s \in salaries}
        wrapped(j) == {j, Arr(<<Null, j>>),
                       Obj(<<<<"@graph", Arr(<<Null, j>>)>>>>),
                       Obj(<<<<"@graph", j>>>>)}
        others == {SyntaxError, Null, Num(5), str("x"),
                   Obj(<<<<"@graph", Null>>>>),
                   Obj(<<<<"@graph", str("x")>>>>),
                   Obj(<<<<"@type", str("Organization")>>,
                         <<"title", str("Org")>>>>)}
        few == others \cup wrapped(job("A", str("JobPosting"), <<>>))
               \cup wrapped(job("B", Arr(<<str("Thing"), str("JobPosting")>>),
                                <<<<"employmentType",
                                    Arr(<<str("FULL_TIME"), str("CONTRACTOR")>>)>>,
                                  <<"hiringOrganization",
                                    Obj(<<<<"name", str("B Corp")>>>>)>>>>))
        pages == {<<b>> : b \in UNION {wrapped(j) : j \in shapes}}
                 \cup SeqUpTo(few, MaxBlocks)
    IN  /\ rev \in Revs
        /\ IdleRun("parseJsonLd")
        /\ fnIn \in {[blocks |-> bs] : bs \in pages}
        /\ fnOut = NotCalled

CallParseJsonLd ==
    /\ pc = "parseJsonLd" /\ fnOut = NotCalled
    /\ fnOut' = parseJsonLd(rev, fnIn.blocks)
    /\ UNCHANGED <<rev, runVars, fnIn>>

SpecJsonLd == InitJsonLd /\ [][CallParseJsonLd]_vars

\* C31: parseJsonLd never throws, whatever the blocks of the page hold: a
\* block that does not parse is skipped and a value of unexpected shape only
\* leaves its field out.
C31_ParseJsonLdNeverThrows ==
    pc = "parseJsonLd" /\ fnOut # NotCalled => fnOut # TypeError

\* The objects of the page's blocks in document order, @graph collections
\* flattened, and the places of the JobPostings among them.
PageObjects == Flatten(RawObjects(fnIn.blocks))

JobPostingPlaces == {i \in 1..Len(PageObjects) : IsJobPosting(PageObjects[i])}

\* C32: parseJsonLd returns the data of the first JobPosting of the page in
\* document order (its @type "JobPosting" or a list holding it), and null
\* when the page has none; then the handler's fields are the selectors'.
C32_FirstJobPosting ==
    pc = "parseJsonLd" /\ fnOut \notin {NotCalled, TypeError} =>
        IF JobPostingPlaces = {}
        THEN /\ fnOut = Null
             /\ LET item == assembleItem(rev, DetailUrlOf(Num(1)),
                                         PageOf(fnOut, SelKeys))
                IN  /\ item.title = S(Trim(SelValue("title").s))
                    /\ item.company = S(Trim(SelValue("company").s))
                    /\ item.job_type = S(Trim(SelValue("job_type").s))
                    /\ item.salary = S(Trim(SelValue("salary").s))
                    /\ item.date_posted = S(Trim(SelValue("dateAttr").s))
        ELSE /\ fnOut # Null
             /\ fnOut.title =
                    Prop(PageObjects[CHOOSE i \in JobPostingPlaces :
                                        \A j \in JobPostingPlaces : i <= j], "title")

\* parseJsonLd has answered for a page with two JobPostings of different
\* titles.
C32_Witness ==
    /\ pc = "parseJsonLd" /\ fnOut \notin {NotCalled, TypeError, Null}
    /\ \E i, j \in JobPostingPlaces :
          Prop(PageObjects[i], "title") # Prop(PageObjects[j], "title")

-----------------------------------------------------------------------------
(* description_text of the records *)

\* The records of the detail handler (a bare record has no description).
DetailRecords == {i \in 1..Len(sink) : "description_text" \in DOMAIN sink[i]}

\* C33: in every record of the detail handler description_text is cleanText
\* of the record's description_html, and is null when description_html is.
C33_TextIsCleanedHtml ==
    \A i \in DetailRecords :
        /\ sink[i].description_text = cleanText(sink[i].description_html)
        /\ sink[i].description_html = Null => sink[i].description_text = Null

\* A record whose description came from the selectors, with its text.
C33_Witness ==
    \E r \in reqs : \E i \in DetailRecords :
        /\ r.st \in {"FETCHED", "EXTRACTED"} /\ sink[i].url = S(r.url)
        /\ ~Truthy(LdGet(r.pg.ld, "description_html"))
        /\ sink[i].description_text # Null

-----------------------------------------------------------------------------
(* The location fields of the records *)

\* C34: location, is_remote, remote_type and region of every record are the
\* outputs of normalizeLocation on the raw location of its page, and the
\* record holds no field with the raw string.
C34_LocationFieldsNormalized ==
    \A r \in {q \in reqs : q.st \in {"FETCHED", "EXTRACTED"}} :
        \A i \in RecordsOf(r.url) :
            "location" \in DOMAIN sink[i] =>
                LET locNorm == normalizeLocation(rev, RawLocation(r.pg))
                IN  /\ sink[i].location = locNorm.location
                    /\ sink[i].is_remote = locNorm.is_remote
                    /\ sink[i].remote_type = locNorm.remote_type
                    /\ sink[i].region = locNorm.region
                    /\ "location_raw" \notin DOMAIN sink[i]

-----------------------------------------------------------------------------
(* From a collected job id to the job_id of its record *)

MaxIdLen == 3       \* tokens of a job id that is a string

\* The ids a search response can hold and the loop collects (`!job.id`
\* skips the falsy ones): numbers, and strings of URL-safe and other tokens.
InitJobId ==
    LET tokens == {"7", "a", "/", "?", "#", " ", ".."}
        strings == SeqUpTo(tokens, MaxIdLen) \ {<<>>}
    IN  /\ rev \in {"search"}
        /\ IdleRun("job_id")
        /\ fnIn \in {[id |-> Num(n)] : n \in 1..9} \cup {[id |-> S(t)] : t \in strings}
        /\ fnOut = NotCalled

\* item.job_id of the record of `${DETAIL_BASE}${id}`
CallJobIdOfRecord ==
    /\ pc = "job_id" /\ fnOut = NotCalled
    /\ fnOut' = S(extractJobId(DetailUrlOf(fnIn.id)))
    /\ UNCHANGED <<rev, runVars, fnIn>>

SpecJobId == InitJobId /\ [][CallJobIdOfRecord]_vars

\* C35: extractJobId of the detail URL synthesized from a collected id is
\* the id's string form.
C35_JobIdRoundTrip ==
    pc = "job_id" /\ fnOut # NotCalled => fnOut = S(ToStringJs(fnIn.id))

-----------------------------------------------------------------------------
(* A discovery page that fails *)

\* The candidates the collection stands for (the first RESULTS_WANTED).
UrlsCollected ==
    IF rev = "search"
    THEN Slice(Uniq(seedDetailUrls \o MapDetailUrlOf(jobIds)), cfg.RESULTS_WANTED)
    ELSE Slice(jobLinks, cfg.RESULTS_WANTED)

\* C36: when a search (or listing) page fails, the loop ends with what the
\* earlier pages and the seed gave, no further page is requested, and that
\* collection is what the detail phase is started with.
C36_PageFailureKeepsCollection ==
    [][/\ stopped # "error" /\ stopped' = "error" =>
             /\ jobIds' = jobIds /\ jobLinks' = jobLinks
             /\ seedDetailUrls' = seedDetailUrls
             /\ pc' = "collected"
       /\ stopped = "error" =>
             /\ stopped' = "error"
             /\ pagesFetched' = pagesFetched
             /\ jobIds' = jobIds /\ jobLinks' = jobLinks
       /\ stopped = "error" /\ pc = "collected" /\ pc' \in {"crawling", "bare"} =>
             detailUrls' = UrlsCollected]_vars

\* A run whose second page failed has ended with the record of the first
\* page's job.
C36_Witness ==
    /\ stopped = "error" /\ pagesFetched = 2 /\ pc = "done"
    /\ CollectedSize > 0 /\ Len(sink) > 0

-----------------------------------------------------------------------------
(* The saved counter and the sink *)

\* C37: saved never decreases, a step that raises it finds the records it
\* counts already in the sink, and a run of the detail crawler ends with
\* saved equal to the number of records in the sink.
C37_SavedCountsAppends ==
    [][/\ saved' >= saved
       /\ saved' > saved => saved' <= Len(sink)
       /\ saved' <= Len(sink')
       /\ pc' = "done" /\ ~BareBranch(rev, cfg) => saved' = Len(sink')]_vars

-----------------------------------------------------------------------------
(* is_remote is true or null *)

\* The raw location holds "remote" in some case.
MentionsRemote(raw) ==
    raw.t = "string" /\ \E i \in 1..Len(raw.s) : LowerCase(raw.s[i]) = "remote"

\* C38: normalizeLocation never returns is_remote = false: is_remote is
\* true exactly when remote_type is not null, which is when the raw string
\* holds "remote", and is null otherwise; location and region are equal.
C38_RemoteTrueOrNull ==
    pc = "normalizeLocation" /\ fnOut # NotCalled =>
        /\ fnOut.is_remote \in {True, Null}
        /\ fnOut.is_remote = True <=> fnOut.remote_type # Null
        /\ fnOut.is_remote = True <=> MentionsRemote(fnIn)
        /\ fnOut.location = fnOut.region

\* normalizeLocation has answered for a location without "remote".
C38_Witness ==
    /\ pc = "normalizeLocation" /\ fnOut # NotCalled
    /\ fnOut.location # Null /\ fnOut.is_remote = Null

====
